---- MODULE Spec2Model ----
(***************************************************************************)
(* Expense reimbursement system: the approval workflow engine.             *)
(*                                                                         *)
(* State: the User and Expense collections, the company's settings, the    *)
(* last HTTP response and the requests a handler has read the database    *)
(* for but not yet written (inflight).  Spec takes each route handler      *)
(* atomically (one request at a time); the specifications further down     *)
(* split a handler at its awaits.                                          *)
(***************************************************************************)
EXTENDS Integers, Sequences, FiniteSets, TLC

VARIABLES users, company, expenses, nextId, res, inflight

vars == <<users, company, expenses, nextId, res, inflight>>

(***************************************************************************)
(* Bounds and input domains                                                *)
(***************************************************************************)
\* Number of expenses ever created (ids are never reused).
MaxExpenses == 1

\* Exchange rate returned by the rates API for EUR -> USD.
RateEURUSD == 2

Null == "null"

UserIds == {"a1", "m1", "m2", "e1", "e2"}

CompanyId == "c1"

Amounts == {3000, 6000}

Currencies == {"USD", "EUR"}

CompanyCurrency == "USD"

\* Comments of a reject request (required), and of an approve request
\* (optional: an omitted comment is stored as '').
Comments == {"", "c"}

ApproveComments == {""}

\* The comments of a reject request: missing (null), empty, or given.
RejectComments == Comments \cup {Null}

Percentages == {60, 100}

RuleRoles == {"CFO", "admin"}

ExpenseIds == 1..MaxExpenses

(***************************************************************************)
(* Company schema defaults                                                 *)
(***************************************************************************)
DefaultPercentage == 60

DefaultFinanceApproval == 5000

DefaultDirectorApproval == 10000

DefaultApprovalRules ==
    [percentageRule       |-> [enabled |-> FALSE, percentage |-> DefaultPercentage],
     specificApproverRule |-> [enabled |-> FALSE, approverRole |-> "CFO"],
     hybridRule           |-> [enabled |-> FALSE, percentage |-> DefaultPercentage,
                               specificRole |-> "CFO"]]

DefaultThresholds ==
    [financeApproval |-> DefaultFinanceApproval,
     directorApproval |-> DefaultDirectorApproval]

\* The rule settings an admin submits through PUT /api/companies/me: a rule
\* that is switched off keeps the schema's default parameters.
PercentageRules ==
    {DefaultApprovalRules.percentageRule}
        \cup [enabled : {TRUE}, percentage : Percentages]

SpecificApproverRules ==
    {DefaultApprovalRules.specificApproverRule}
        \cup [enabled : {TRUE}, approverRole : RuleRoles]

HybridRules ==
    {DefaultApprovalRules.hybridRule}
        \cup [enabled : {TRUE}, percentage : {DefaultPercentage}, specificRole : {"admin"}]

RuleSettings ==
    [percentageRule       : PercentageRules,
     specificApproverRule : SpecificApproverRules,
     hybridRule           : HybridRules]

(***************************************************************************)
(* The company's users once the admin has registered and created them      *)
(***************************************************************************)
Directory ==
    [u \in UserIds |->
        CASE u = "a1" -> [role |-> "admin", company |-> CompanyId, manager |-> Null,
                          isManagerApprover |-> FALSE, isActive |-> TRUE]
          [] u = "m1" -> [role |-> "manager", company |-> CompanyId, manager |-> Null,
                          isManagerApprover |-> TRUE, isActive |-> TRUE]
          [] u = "m2" -> [role |-> "manager", company |-> CompanyId, manager |-> Null,
                          isManagerApprover |-> TRUE, isActive |-> TRUE]
          [] u = "e1" -> [role |-> "employee", company |-> CompanyId, manager |-> "m1",
                          isManagerApprover |-> TRUE, isActive |-> TRUE]
          [] u = "e2" -> [role |-> "employee", company |-> CompanyId, manager |-> Null,
                          isManagerApprover |-> FALSE, isActive |-> TRUE]]

\* A second company registered on the same server (its own admin, a manager
\* and an employee), with the schema's default settings.
OtherCompanyId == "c2"

OtherUserIds == {"xa", "xm", "xe"}

OtherDirectory ==
    [u \in OtherUserIds |->
        [role |-> CASE u = "xa" -> "admin" [] u = "xm" -> "manager" [] u = "xe" -> "employee",
         company |-> OtherCompanyId, manager |-> Null,
         isManagerApprover |-> FALSE, isActive |-> TRUE]]

OtherCompany ==
    [currency |-> CompanyCurrency,
     settings |-> [approvalRules |-> DefaultApprovalRules,
                   thresholds    |-> DefaultThresholds]]

(***************************************************************************)
(* Helpers                                                                 *)
(***************************************************************************)
Respond(route, status, message) ==
    res' = [route |-> route, status |-> status, message |-> message]

\* Company.findById(req.user.company._id): the requester's company.
CompanyOf(user) == IF users[user].company = CompanyId THEN company ELSE OtherCompany

\* Role check of the authorize(...roles) middleware.
authorize(u, roles) == users[u].role \in roles

\* The possible results of Model.findOne(filter): any matching document
\* (no sort is given), or null when none matches.
FindOne(matching) == IF matching = {} THEN {Null} ELSE matching

\* Array.prototype.find over the indices that satisfy its predicate: the
\* first of them (0: undefined, none satisfies it).
First(indices) ==
    IF indices = {} THEN 0 ELSE CHOOSE i \in indices : \A j \in indices : i <= j

(***************************************************************************)
(* utils/currency.js                                                       *)
(***************************************************************************)
Converted(value) == [ok |-> TRUE, value |-> value]

\* The call throws ('Failed to fetch currency rates', or no rate for the currency).
Failure == [ok |-> FALSE, value |-> 0]

\* rates[toCurrency] of the fetched table (0: the table has no such entry).
Rate(fromCurrency, toCurrency) ==
    IF fromCurrency = "EUR" /\ toCurrency = "USD" THEN RateEURUSD ELSE 0

\* Mutant of convertCurrency: when the rates cannot be had, the amount is
\* returned as it is (a rate of 1 is assumed).
convertCurrencyGuessed(amount, fromCurrency, toCurrency) ==
    IF fromCurrency = toCurrency
    THEN {Converted(amount)}
    ELSE IF Rate(fromCurrency, toCurrency) = 0
         THEN {Converted(amount)}
         ELSE {Converted(amount * Rate(fromCurrency, toCurrency)), Converted(amount)}

\* The outcomes of convertCurrency: the amount itself for equal currencies,
\* else amount * rate, or a throw when the rates cannot be had.
convertCurrency(amount, fromCurrency, toCurrency) ==
    IF fromCurrency = toCurrency
    THEN {Converted(amount)}
    ELSE IF Rate(fromCurrency, toCurrency) = 0
         THEN {Failure}
         ELSE {Converted(amount * Rate(fromCurrency, toCurrency)), Failure}

(***************************************************************************)
(* models/Expense.js                                                       *)
(***************************************************************************)
ApprovedCount(approvalFlow) ==
    Cardinality({i \in 1..Len(approvalFlow) : approvalFlow[i].status = "approved"})

\* Mutant of getApprovalPercentage: skipped steps are not counted as approvers.
getApprovalPercentageUnskipped(approvalFlow) ==
    LET counted == {i \in 1..Len(approvalFlow) : approvalFlow[i].status # "skipped"}
    IN  IF counted # {}
        THEN (ApprovedCount(approvalFlow) * 100) \div Cardinality(counted)
        ELSE 0

\* Mutant of getApprovalPercentage: the share of the steps not yet acted on.
getPendingPercentage(approvalFlow) ==
    IF Len(approvalFlow) > 0
    THEN (Cardinality({i \in 1..Len(approvalFlow) : approvalFlow[i].status = "pending"})
            * 100) \div Len(approvalFlow)
    ELSE 0

\* (approvedCount / totalApprovers) * 100, rounded down: the rule percentages
\* it is compared with are integers, and x >= p iff floor(x) >= p for integer p.
getApprovalPercentage(approvalFlow) ==
    IF Len(approvalFlow) > 0
    THEN (ApprovedCount(approvalFlow) * 100) \div Len(approvalFlow)
    ELSE 0

HasApprovedRole(approvalFlow, role) ==
    \E i \in 1..Len(approvalFlow) :
        /\ users[approvalFlow[i].approver].role = role
        /\ approvalFlow[i].status = "approved"

\* Mutant of checkApprovalCriteria: the hybrid rule asks for both of its conditions.
checkApprovalCriteriaHybridAnd(approvalFlow, settings) ==
    LET approvalPercentage == getApprovalPercentage(approvalFlow) IN
    IF /\ settings.percentageRule.enabled
       /\ approvalPercentage >= settings.percentageRule.percentage
    THEN TRUE
    ELSE IF /\ settings.specificApproverRule.enabled
            /\ HasApprovedRole(approvalFlow, settings.specificApproverRule.approverRole)
    THEN TRUE
    ELSE IF /\ settings.hybridRule.enabled
            /\ HasApprovedRole(approvalFlow, settings.hybridRule.specificRole)
            /\ approvalPercentage >= settings.hybridRule.percentage
    THEN TRUE
    ELSE FALSE

checkApprovalCriteria(approvalFlow, settings) ==
    LET approvalPercentage == getApprovalPercentage(approvalFlow) IN
    IF /\ settings.percentageRule.enabled
       /\ approvalPercentage >= settings.percentageRule.percentage
    THEN TRUE
    ELSE IF /\ settings.specificApproverRule.enabled
            /\ HasApprovedRole(approvalFlow, settings.specificApproverRule.approverRole)
    THEN TRUE
    ELSE IF /\ settings.hybridRule.enabled
            /\ \/ HasApprovedRole(approvalFlow, settings.hybridRule.specificRole)
               \/ approvalPercentage >= settings.hybridRule.percentage
    THEN TRUE
    ELSE FALSE

(***************************************************************************)
(* routes/expenses.js: setupApprovalFlow                                   *)
(***************************************************************************)
Step(approver, order) ==
    [approver |-> approver, order |-> order, status |-> "pending", comments |-> Null]

\* Lines 356-370: the employee's manager, when set and isManagerApprover.
\* The result carries the function's locals.
ManagerStep(user) ==
    IF users[user].manager # Null /\ users[user].isManagerApprover
    THEN [approvalFlow    |-> <<Step(users[user].manager, 1)>>,
          currentApprover |-> users[user].manager,
          order           |-> 2]
    ELSE [approvalFlow |-> <<>>, currentApprover |-> Null, order |-> 1]

\* Mutant of ThresholdStep: the order is not counted up after a push.
ThresholdStepKeepsOrder(st, amount, threshold, found) ==
    IF amount >= threshold /\ found # Null /\ found # st.currentApprover
    THEN [approvalFlow    |-> Append(st.approvalFlow, Step(found, st.order)),
          currentApprover |-> IF st.currentApprover = Null
                              THEN found
                              ELSE st.currentApprover,
          order           |-> st.order]
    ELSE st

\* Mutant of ThresholdStep: an amount equal to the threshold adds no approver.
ThresholdStepAbove(st, amount, threshold, found) ==
    IF amount > threshold /\ found # Null /\ found # st.currentApprover
    THEN [approvalFlow    |-> Append(st.approvalFlow, Step(found, st.order)),
          currentApprover |-> IF st.currentApprover = Null
                              THEN found
                              ELSE st.currentApprover,
          order           |-> st.order + 1]
    ELSE st

\* Lines 377-392 and 394-408: a threshold approver is pushed at the next
\* order when the amount reaches the threshold, the lookup found a user and
\* that user is not currentApprover.
ThresholdStep(st, amount, threshold, found) ==
    IF amount >= threshold /\ found # Null /\ found # st.currentApprover
    THEN [approvalFlow    |-> Append(st.approvalFlow, Step(found, st.order)),
          currentApprover |-> IF st.currentApprover = Null
                              THEN found
                              ELSE st.currentApprover,
          order           |-> st.order + 1]
    ELSE st

\* Lines 410-424: with no approver so far, the admin the lookup found.
FallbackStep(st, admin) ==
    IF Len(st.approvalFlow) = 0 /\ admin # Null
    THEN [st EXCEPT !.approvalFlow = <<Step(admin, 1)>>, !.currentApprover = admin]
    ELSE st

\* financeManager, director and admin are the results of the three findOne
\* lookups.  Lines 426-427: the flow and the current approver set on the expense.
setupApprovalFlow(user, amount, thresholds, financeManager, director, admin) ==
    LET withManager  == ManagerStep(user)
        withFinance  == ThresholdStep(withManager, amount,
                                      thresholds.financeApproval, financeManager)
        withDirector == ThresholdStep(withFinance, amount,
                                      thresholds.directorApproval, director)
        final        == FallbackStep(withDirector, admin)
    IN  [approvalFlow |-> final.approvalFlow, currentApprover |-> final.currentApprover]

FinanceManagers ==
    {u \in UserIds : /\ users[u].company = CompanyId
                     /\ users[u].role = "manager"
                     /\ users[u].isManagerApprover}

Admins == {u \in UserIds : users[u].company = CompanyId /\ users[u].role = "admin"}

(***************************************************************************)
(* routes/approvals.js: the effect of a successful approve or reject       *)
(***************************************************************************)
\* Mutant of Approved: the status is set, the current approver is left in place.
ApprovedKeepsApprover(expense) == [expense EXCEPT !.status = "approved"]

Approved(expense) == [expense EXCEPT !.status = "approved", !.currentApprover = Null]

\* Mutant of NextApproval: the last pending step of greater order.
NextApprovalLast(approvalFlow, order) ==
    LET later == {i \in 1..Len(approvalFlow) :
                    approvalFlow[i].status = "pending" /\ approvalFlow[i].order > order}
    IN  IF later = {} THEN 0 ELSE CHOOSE i \in later : \A j \in later : j <= i

\* Lines 90-93: the first pending step of greater order, as an index (0: none).
NextApproval(approvalFlow, order) ==
    First({i \in 1..Len(approvalFlow) :
                approvalFlow[i].status = "pending" /\ approvalFlow[i].order > order})

\* Mutant of NoMoreApprovers: the exhausted chain never completes the expense.
NoMoreApproversKeepsPending(expense, settings) == expense

\* Lines 98-118: no more approvers.
NoMoreApprovers(expense, settings) ==
    IF /\ settings.percentageRule.enabled
       /\ getApprovalPercentage(expense.approvalFlow) >= settings.percentageRule.percentage
    THEN Approved(expense)
    ELSE IF settings.specificApproverRule.enabled
    THEN IF HasApprovedRole(expense.approvalFlow,
                            settings.specificApproverRule.approverRole)
         THEN Approved(expense)
         ELSE expense
    ELSE Approved(expense)

\* Mutant of RecordAction: the history entry is put in front of the log.
RecordActionPrepends(expense, idx, user, action, comments) ==
    [expense EXCEPT
        !.approvalFlow[idx].status = action,
        !.approvalFlow[idx].comments = comments,
        !.approvalHistory = <<[approver |-> user, action |-> action,
                               comments |-> comments]>> \o @]

\* Lines 69-79: the step and the history entry.
RecordAction(expense, idx, user, action, comments) ==
    [expense EXCEPT
        !.approvalFlow[idx].status = action,
        !.approvalFlow[idx].comments = comments,
        !.approvalHistory = Append(@, [approver |-> user, action |-> action,
                                       comments |-> comments])]

\* Mutant of ApproveResult: the rules are consulted only once no approver is left.
ApproveResultAfterLastStep(expense, idx, user, comments, settings) ==
    LET acted == RecordAction(expense, idx, user, "approved", comments)
        nextApproval == NextApproval(acted.approvalFlow, acted.approvalFlow[idx].order)
    IN  IF nextApproval # 0
        THEN [acted EXCEPT !.currentApprover = acted.approvalFlow[nextApproval].approver]
        ELSE IF checkApprovalCriteria(acted.approvalFlow, settings)
        THEN Approved(acted)
        ELSE NoMoreApprovers(acted, settings)

\* Lines 69-120.
ApproveResult(expense, idx, user, comments, settings) ==
    LET acted == RecordAction(expense, idx, user, "approved", comments)
        nextApproval == NextApproval(acted.approvalFlow, acted.approvalFlow[idx].order)
    IN  IF checkApprovalCriteria(acted.approvalFlow, settings)
        THEN Approved(acted)
        ELSE IF nextApproval # 0
        THEN [acted EXCEPT !.currentApprover = acted.approvalFlow[nextApproval].approver]
        ELSE NoMoreApprovers(acted, settings)

\* Lines 176-190.
RejectResult(expense, idx, user, comments) ==
    [RecordAction(expense, idx, user, "rejected", comments) EXCEPT
        !.status = "rejected", !.currentApprover = Null]

\* Lines 60-63 and 167-170: the acting user's pending step (0: none).
CurrentApproval(expense, user) ==
    First({i \in 1..Len(expense.approvalFlow) :
                /\ expense.approvalFlow[i].approver = user
                /\ expense.approvalFlow[i].status = "pending"})

(***************************************************************************)
(* State after the company was registered (default settings) and its users *)
(* were created                                                            *)
(***************************************************************************)
Init ==
    /\ users = Directory
    /\ company = [currency |-> CompanyCurrency,
                  settings |-> [approvalRules |-> DefaultApprovalRules,
                                thresholds    |-> DefaultThresholds]]
    /\ expenses = <<>>
    /\ nextId = 1
    /\ inflight = {}
    /\ res = [route |-> "POST /api/auth/register", status |-> 201,
              message |-> "Company and admin user created successfully"]

\* A handler that returns early, or whose throw is caught: nothing is saved.
Fail(route, status, message) ==
    /\ Respond(route, status, message)
    /\ UNCHANGED <<users, company, expenses, nextId, inflight>>

(***************************************************************************)
(* POST /api/expenses                                                      *)
(***************************************************************************)
CreateExpense(user, amount, originalCurrency) ==
    LET route == "POST /api/expenses" IN
    IF ~authorize(user, {"employee", "admin"})
    THEN Fail(route, 403, "Not authorized for this route")
    ELSE \E conversion \in convertCurrency(amount, originalCurrency, company.currency) :
         IF ~conversion.ok
         THEN Fail(route, 500, "Server error")
         ELSE /\ nextId <= MaxExpenses
              /\ \E financeManager \in FindOne(FinanceManagers),
                    director \in FindOne(Admins),
                    admin \in FindOne(Admins) :
                    LET flow == setupApprovalFlow(user, conversion.value,
                                                  company.settings.thresholds,
                                                  financeManager, director, admin)
                        expense == [employee         |-> user,
                                    company          |-> CompanyId,
                                    amount           |-> amount,
                                    originalCurrency |-> originalCurrency,
                                    convertedAmount  |-> conversion.value,
                                    status           |-> "pending",
                                    currentApprover  |-> flow.currentApprover,
                                    approvalHistory  |-> <<>>,
                                    approvalFlow     |-> flow.approvalFlow]
                    IN  expenses' = (nextId :> expense) @@ expenses
              /\ nextId' = nextId + 1
              /\ Respond(route, 201, "Expense created successfully")
              /\ UNCHANGED <<users, company, inflight>>

(***************************************************************************)
(* POST /api/approvals/:id/approve                                         *)
(***************************************************************************)
ApproveExpense(user, id, comments) ==
    LET route == "POST /api/approvals/:id/approve" IN
    IF ~authorize(user, {"manager", "admin"})
    THEN Fail(route, 403, "Not authorized for this route")
    ELSE IF id \notin DOMAIN expenses
    THEN Fail(route, 404, "Expense not found")
    ELSE IF expenses[id].currentApprover = Null
    THEN \* null.toString() throws; the catch answers 500
         Fail(route, 500, "Server error")
    ELSE IF expenses[id].currentApprover # user
    THEN Fail(route, 403, "You are not authorized to approve this expense")
    ELSE IF CurrentApproval(expenses[id], user) = 0
    THEN Fail(route, 400, "No pending approval found for current user")
    ELSE /\ expenses' = [expenses EXCEPT ![id] =
                            ApproveResult(@, CurrentApproval(@, user), user, comments,
                                          company.settings.approvalRules)]
         /\ Respond(route, 200, "Expense approved successfully")
         /\ UNCHANGED <<users, company, nextId, inflight>>

(***************************************************************************)
(* POST /api/approvals/:id/reject                                          *)
(***************************************************************************)
\* Mutant of RejectExpense: the comments are not validated.
RejectExpenseUnvalidated(user, id, comments) ==
    LET route == "POST /api/approvals/:id/reject" IN
    IF ~authorize(user, {"manager", "admin"})
    THEN Fail(route, 403, "Not authorized for this route")
    ELSE IF id \notin DOMAIN expenses
    THEN Fail(route, 404, "Expense not found")
    ELSE IF expenses[id].currentApprover = Null
    THEN Fail(route, 500, "Server error")
    ELSE IF expenses[id].currentApprover # user
    THEN Fail(route, 403, "You are not authorized to reject this expense")
    ELSE IF CurrentApproval(expenses[id], user) = 0
    THEN Fail(route, 400, "No pending approval found for current user")
    ELSE /\ expenses' = [expenses EXCEPT ![id] =
                            RejectResult(@, CurrentApproval(@, user), user, comments)]
         /\ Respond(route, 200, "Expense rejected successfully")
         /\ UNCHANGED <<users, company, nextId, inflight>>

RejectExpense(user, id, comments) ==
    LET route == "POST /api/approvals/:id/reject" IN
    IF ~authorize(user, {"manager", "admin"})
    THEN Fail(route, 403, "Not authorized for this route")
    ELSE IF comments \in {Null, ""}
    THEN \* body('comments').notEmpty()
         Fail(route, 400, "Rejection comments are required")
    ELSE IF id \notin DOMAIN expenses
    THEN Fail(route, 404, "Expense not found")
    ELSE IF expenses[id].currentApprover = Null
    THEN Fail(route, 500, "Server error")
    ELSE IF expenses[id].currentApprover # user
    THEN Fail(route, 403, "You are not authorized to reject this expense")
    ELSE IF CurrentApproval(expenses[id], user) = 0
    THEN Fail(route, 400, "No pending approval found for current user")
    ELSE /\ expenses' = [expenses EXCEPT ![id] =
                            RejectResult(@, CurrentApproval(@, user), user, comments)]
         /\ Respond(route, 200, "Expense rejected successfully")
         /\ UNCHANGED <<users, company, nextId, inflight>>

\* Mutant of NotPending: the status check is missing.
NotPendingNever(expense) == FALSE

\* Mutant of NotPending: only a rejected expense is protected.
NotPendingOnlyRejected(expense) == expense.status = "rejected"

\* Lines 291 and 341: updates and deletions are allowed on pending expenses only.
NotPending(expense) == expense.status # "pending"

(***************************************************************************)
(* PUT /api/expenses/:id                                                   *)
(***************************************************************************)
UpdateExpense(user, id, hasAmount, amount) ==
    LET route == "PUT /api/expenses/:id" IN
    IF ~authorize(user, {"employee", "admin"})
    THEN Fail(route, 403, "Not authorized for this route")
    ELSE IF id \notin DOMAIN expenses
    THEN Fail(route, 404, "Expense not found")
    ELSE IF users[user].role = "employee" /\ expenses[id].employee # user
    THEN Fail(route, 403, "Access denied")
    ELSE IF NotPending(expenses[id])
    THEN Fail(route, 400, "Cannot update approved or rejected expense")
    ELSE IF ~hasAmount
    THEN \* no field to update: the expense is saved as it was read
         /\ Respond(route, 200, "Expense updated successfully")
         /\ UNCHANGED <<users, company, expenses, nextId, inflight>>
    ELSE \E conversion \in
                convertCurrency(amount, expenses[id].originalCurrency,
                                CompanyOf(user).currency) :
         IF ~conversion.ok
         THEN Fail(route, 500, "Server error")
         ELSE /\ expenses' = [expenses EXCEPT ![id].amount = amount,
                                              ![id].convertedAmount = conversion.value]
              /\ Respond(route, 200, "Expense updated successfully")
              /\ UNCHANGED <<users, company, nextId, inflight>>

(***************************************************************************)
(* DELETE /api/expenses/:id                                                *)
(***************************************************************************)
DeleteExpense(user, id) ==
    LET route == "DELETE /api/expenses/:id" IN
    IF id \notin DOMAIN expenses
    THEN Fail(route, 404, "Expense not found")
    ELSE IF users[user].role = "employee" /\ expenses[id].employee # user
    THEN Fail(route, 403, "Access denied")
    ELSE IF NotPending(expenses[id])
    THEN Fail(route, 400, "Cannot delete approved or rejected expense")
    ELSE /\ expenses' = [i \in DOMAIN expenses \ {id} |-> expenses[i]]
         /\ Respond(route, 200, "Expense deleted successfully")
         /\ UNCHANGED <<users, company, nextId, inflight>>

(***************************************************************************)
(* PUT /api/companies/me (the approval rules)                              *)
(***************************************************************************)
\* approvalRules is settings.approvalRules of the request body.
UpdateCompany(user) ==
    LET route == "PUT /api/companies/me" IN
    IF ~authorize(user, {"admin"})
    THEN Fail(route, 403, "Not authorized for this route")
    ELSE \E approvalRules \in RuleSettings :
         /\ company' = [company EXCEPT !.settings.approvalRules = approvalRules]
         /\ Respond(route, 200, "Company updated successfully")
         /\ UNCHANGED <<users, expenses, nextId, inflight>>

Next ==
    \/ \E user \in UserIds, amount \in Amounts, originalCurrency \in Currencies :
            CreateExpense(user, amount, originalCurrency)
    \/ \E user \in UserIds, id \in ExpenseIds, comments \in ApproveComments :
            ApproveExpense(user, id, comments)
    \/ \E user \in UserIds, id \in ExpenseIds, comments \in RejectComments :
            RejectExpense(user, id, comments)
    \/ \E user \in UserIds, id \in ExpenseIds, hasAmount \in BOOLEAN, amount \in Amounts :
            UpdateExpense(user, id, hasAmount, amount)
    \/ \E user \in UserIds, id \in ExpenseIds :
            DeleteExpense(user, id)
    \/ \E user \in UserIds :
            UpdateCompany(user)

Spec == Init /\ [][Next]_vars

(***************************************************************************)
(* Vocabulary of the properties                                            *)
(***************************************************************************)
Terminal(expense) == expense.status \in {"approved", "rejected"}

ApproveRoute == "POST /api/approvals/:id/approve"

\* The pending steps of a flow whose order is greater than `order`.
PendingAfter(approvalFlow, order) ==
    {i \in 1..Len(approvalFlow) :
        approvalFlow[i].status = "pending" /\ approvalFlow[i].order > order}

\* The steps of an expense that name `user` and have the given status.
StepsOf(expense, user, status) ==
    {i \in 1..Len(expense.approvalFlow) :
        /\ expense.approvalFlow[i].approver = user
        /\ expense.approvalFlow[i].status = status}

\* An approve request of `user` on expense `id` that is answered 200.
ApproveSucceeds(user, id, comments) ==
    /\ ApproveExpense(user, id, comments)
    /\ res'.status = 200

(***************************************************************************)
(* C1 (veto dominance).  A Reject with non-empty comments by the current   *)
(* approver of a pending expense marks that approver's step rejected, sets *)
(* the status to rejected and currentApprover to null, whatever the rules. *)
(***************************************************************************)
C1_VetoDominance ==
    [][\A user \in UserIds, id \in ExpenseIds, comments \in Comments \ {""} :
        ( /\ id \in DOMAIN expenses
          /\ expenses[id].status = "pending"
          /\ expenses[id].currentApprover = user
          /\ RejectExpense(user, id, comments) )
        => /\ id \in DOMAIN expenses'
           /\ expenses'[id].status = "rejected"
           /\ expenses'[id].currentApprover = Null
           /\ StepsOf(expenses'[id], user, "rejected") # {}]_vars

(***************************************************************************)
(* C2 (default approve on chain exhaustion).  A successful Approve that    *)
(* leaves no pending step of greater order, with the completion rules      *)
(* false, ends with status approved and currentApprover null.              *)
(***************************************************************************)
C2_ExhaustionApproves ==
    [][\A user \in UserIds, id \in ExpenseIds, comments \in ApproveComments :
        ( /\ ApproveSucceeds(user, id, comments)
          /\ LET idx == CurrentApproval(expenses[id], user) IN
                PendingAfter(expenses'[id].approvalFlow,
                             expenses[id].approvalFlow[idx].order) = {}
          /\ ~checkApprovalCriteria(expenses'[id].approvalFlow,
                                    company.settings.approvalRules) )
        => /\ expenses'[id].status = "approved"
           /\ expenses'[id].currentApprover = Null]_vars

(***************************************************************************)
(* C3 (no expense is stuck).  After every successful Approve the expense   *)
(* is terminal, or its currentApprover holds a pending step.               *)
(***************************************************************************)
C3_NeverStuck ==
    [][\A user \in UserIds, id \in ExpenseIds, comments \in ApproveComments :
        ApproveSucceeds(user, id, comments)
        => \/ Terminal(expenses'[id])
           \/ /\ expenses'[id].currentApprover # Null
              /\ StepsOf(expenses'[id], expenses'[id].currentApprover, "pending") # {}]_vars

(***************************************************************************)
(* C4.  A non-null currentApprover is the approver of exactly one pending  *)
(* step of the expense.                                                    *)
(***************************************************************************)
C4_CurrentApproverHoldsOnePendingStep ==
    \A id \in DOMAIN expenses :
        expenses[id].currentApprover # Null
        => Cardinality(StepsOf(expenses[id], expenses[id].currentApprover, "pending")) = 1

(***************************************************************************)
(* C5.  An approved or rejected expense has currentApprover null.          *)
(***************************************************************************)
C5_TerminalHasNoApprover ==
    \A id \in DOMAIN expenses :
        Terminal(expenses[id]) => expenses[id].currentApprover = Null

C5_Witness ==
    \E id \in DOMAIN expenses :
        /\ expenses[id].status = "approved"
        /\ res.route = ApproveRoute /\ res.status = 200

C7_OthersGetAuthorizationError ==
    [][\A user \in UserIds, id \in ExpenseIds :
        /\ \A comments \in ApproveComments :
            ( /\ id \in DOMAIN expenses
              /\ expenses[id].currentApprover # user
              /\ ApproveExpense(user, id, comments) )
            => res'.status = 403 /\ expenses' = expenses
        /\ \A comments \in Comments \ {""} :
            ( /\ id \in DOMAIN expenses
              /\ expenses[id].currentApprover # user
              /\ RejectExpense(user, id, comments) )
            => res'.status = 403 /\ expenses' = expenses]_vars

(***************************************************************************)
(* C8.  An Approve by an actor on a step that actor has already approved   *)
(* fails with a state error (400) and leaves the expense unchanged.        *)
(***************************************************************************)
C8_ReApproveIsStateError ==
    [][\A user \in UserIds, id \in ExpenseIds, comments \in ApproveComments :
        ( /\ id \in DOMAIN expenses
          /\ StepsOf(expenses[id], user, "approved") # {}
          /\ ApproveExpense(user, id, comments) )
        => res'.status = 400 /\ expenses' = expenses]_vars

(***************************************************************************)
(* C9.  After a successful Approve, if the completion rules are true on    *)
(* the updated steps the expense is approved with currentApprover null,    *)
(* even with steps of higher order pending; a single-step chain under an   *)
(* enabled percentage rule (percentage <= 100) is approved by approving    *)
(* its only step.                                                          *)
(***************************************************************************)
C9_RulesMetApproves ==
    [][\A user \in UserIds, id \in ExpenseIds, comments \in ApproveComments :
        ApproveSucceeds(user, id, comments)
        => /\ checkApprovalCriteria(expenses'[id].approvalFlow,
                                    company.settings.approvalRules)
              => /\ expenses'[id].status = "approved"
                 /\ expenses'[id].currentApprover = Null
           /\ ( /\ Len(expenses[id].approvalFlow) = 1
                /\ company.settings.approvalRules.percentageRule.enabled
                /\ company.settings.approvalRules.percentageRule.percentage <= 100 )
              => /\ expenses'[id].status = "approved"
                 /\ expenses'[id].currentApprover = Null]_vars

\* An approve completed the expense while a later step was still pending.
C9_Witness ==
    \E id \in DOMAIN expenses :
        /\ res.route = ApproveRoute /\ res.status = 200
        /\ expenses[id].status = "approved"
        /\ \E i \in 1..Len(expenses[id].approvalFlow) :
                expenses[id].approvalFlow[i].status = "pending"

(***************************************************************************)
(* C10.  After a successful Approve with the completion rules false and a  *)
(* pending step of greater order, the status stays pending and             *)
(* currentApprover is the approver of the pending step of smallest such    *)
(* order.                                                                  *)
(***************************************************************************)
C10_AdvancesToNextPending ==
    [][\A user \in UserIds, id \in ExpenseIds, comments \in ApproveComments :
        LET order == expenses[id].approvalFlow[CurrentApproval(expenses[id], user)].order
            later == PendingAfter(expenses'[id].approvalFlow, order)
        IN  ( /\ ApproveSucceeds(user, id, comments)
              /\ ~checkApprovalCriteria(expenses'[id].approvalFlow,
                                        company.settings.approvalRules)
              /\ later # {} )
            => /\ expenses'[id].status = "pending"
               /\ \E i \in later :
                    /\ \A j \in later : expenses'[id].approvalFlow[i].order
                                            <= expenses'[id].approvalFlow[j].order
                    /\ expenses'[id].currentApprover
                            = expenses'[id].approvalFlow[i].approver]_vars

\* An approve moved the expense on while two later steps were pending.
C10_Witness ==
    \E id \in DOMAIN expenses :
        /\ res.route = ApproveRoute /\ res.status = 200
        /\ expenses[id].status = "pending"
        /\ Cardinality(StepsOf(expenses[id], expenses[id].currentApprover, "pending")) = 1
        /\ Cardinality(PendingAfter(expenses[id].approvalFlow, 0)) >= 2

\* Every completion rule of the policy is switched off.
NoRuleEnabled(rules) ==
    /\ ~rules.percentageRule.enabled
    /\ ~rules.specificApproverRule.enabled
    /\ ~rules.hybridRule.enabled

(***************************************************************************)
(* C12.  With no completion rule enabled checkApprovalCriteria is false,   *)
(* and a successful Approve leaves the expense pending unless it approved  *)
(* the step of highest order, in which case the expense is approved.       *)
(***************************************************************************)
C12_NoRuleApprovesAtLastStep ==
    [][\A user \in UserIds, id \in ExpenseIds, comments \in ApproveComments :
        ( /\ ApproveSucceeds(user, id, comments)
          /\ NoRuleEnabled(company.settings.approvalRules) )
        => LET approvalFlow == expenses[id].approvalFlow
               idx == CurrentApproval(expenses[id], user)
           IN  /\ ~checkApprovalCriteria(expenses'[id].approvalFlow,
                                         company.settings.approvalRules)
               /\ IF \A j \in 1..Len(approvalFlow) :
                        approvalFlow[j].order <= approvalFlow[idx].order
                  THEN /\ expenses'[id].status = "approved"
                       /\ expenses'[id].currentApprover = Null
                  ELSE /\ expenses'[id].status = "pending"
                       /\ expenses'[id].currentApprover # Null]_vars

\* With every rule off, the approve of the last of several steps completed
\* the expense.
C12_Witness ==
    \E id \in DOMAIN expenses :
        /\ res.route = ApproveRoute /\ res.status = 200
        /\ NoRuleEnabled(company.settings.approvalRules)
        /\ expenses[id].status = "approved"
        /\ Len(expenses[id].approvalFlow) >= 2
        /\ \A i \in 1..Len(expenses[id].approvalFlow) :
                expenses[id].approvalFlow[i].status = "approved"

\* The submitting employee, or an admin.
OwnerOrAdmin(user, id) ==
    \/ users[user].role = "admin"
    \/ users[user].role = "employee" /\ expenses[id].employee = user

\* What an Update or Delete of `user` on the stored expense `id` must obey.
OnlyWhilePending(user, id) ==
    /\ res'.status = 200 => expenses[id].status = "pending"
    /\ Terminal(expenses[id])
       => /\ expenses' = expenses
          /\ res'.status # 200
          /\ OwnerOrAdmin(user, id) => res'.status = 400

(***************************************************************************)
(* C17.  Update and Delete succeed only on a pending expense; on an        *)
(* approved or rejected expense they leave the expense stored and          *)
(* unchanged, and a request of the submitting employee or of an admin is   *)
(* answered with the state error (400).                                    *)
(***************************************************************************)
C17_OnlyPendingIsModified ==
    [][\A user \in UserIds, id \in ExpenseIds :
        /\ \A hasAmount \in BOOLEAN, amount \in Amounts :
            ( id \in DOMAIN expenses /\ UpdateExpense(user, id, hasAmount, amount) )
            => OnlyWhilePending(user, id)
        /\ ( id \in DOMAIN expenses /\ DeleteExpense(user, id) )
            => OnlyWhilePending(user, id)]_vars

\* A Delete of an approved or rejected expense was refused.
C17_Witness ==
    \E id \in DOMAIN expenses :
        /\ Terminal(expenses[id])
        /\ res.route = "DELETE /api/expenses/:id"
        /\ res.status = 400
        /\ res.message = "Cannot delete approved or rejected expense"

(***************************************************************************)
(* C18.  A Delete request removes an expense only when it comes from the   *)
(* employee who submitted it or from an admin; a request of a manager-role *)
(* user never removes one.                                                 *)
(***************************************************************************)
C18_DeleteIsEmployeeOrAdmin ==
    [][\A user \in UserIds, id \in ExpenseIds :
        ( /\ id \in DOMAIN expenses
          /\ DeleteExpense(user, id)
          /\ id \notin DOMAIN expenses' )
        => /\ OwnerOrAdmin(user, id)
           /\ users[user].role # "manager"]_vars

(***************************************************************************)
(* C19.  A Reject with missing or empty comments fails and leaves every    *)
(* expense as it was (no step rejected, no history entry, status and       *)
(* currentApprover kept); sent by a manager or an admin it is answered     *)
(* with the validation error (400).                                        *)
(***************************************************************************)
C19_RejectNeedsComments ==
    [][\A user \in UserIds, id \in ExpenseIds, comments \in {Null, ""} :
        RejectExpense(user, id, comments)
        => /\ expenses' = expenses
           /\ res'.status # 200
           /\ authorize(user, {"manager", "admin"})
              => /\ res'.status = 400
                 /\ res'.message = "Rejection comments are required"]_vars

\* The validation error was answered while an expense was waiting for its
\* approver.
C19_Witness ==
    \E id \in DOMAIN expenses :
        /\ res.route = "POST /api/approvals/:id/reject"
        /\ res.status = 400
        /\ res.message = "Rejection comments are required"
        /\ expenses[id].status = "pending"
        /\ StepsOf(expenses[id], expenses[id].currentApprover, "pending") # {}

(***************************************************************************)
(* The rule engine on its own: checkApprovalCriteria applied to any step   *)
(* set under any policy                                                    *)
(***************************************************************************)
\* Longest approval flow the rule engine is applied to.
MaxSteps == 3

StepStatuses == {"pending", "approved", "rejected"}

\* An admin and a manager.
RuleApprovers == {"a1", "m1"}

StepSets ==
    UNION {{[i \in 1..n |-> [approver |-> f[i][1], order |-> i,
                            status |-> f[i][2], comments |-> Null]] :
                f \in [1..n -> RuleApprovers \X StepStatuses]} : n \in 0..MaxSteps}

\* Policies with every rule on or off, whatever its parameters.
Policies ==
    [percentageRule       : [enabled : BOOLEAN, percentage : {50, 67}],
     specificApproverRule : [enabled : BOOLEAN, approverRole : {"CFO", "admin"}],
     hybridRule           : [enabled : BOOLEAN, percentage : {100},
                             specificRole : {"manager"}]]

NotCalled == "not called"

RuleEngineInit ==
    /\ users = Directory
    /\ \E approvalRules \in Policies :
            company = [currency |-> CompanyCurrency,
                       settings |-> [approvalRules |-> approvalRules,
                                     thresholds    |-> DefaultThresholds]]
    /\ \E approvalFlow \in StepSets :
            expenses = (1 :> [employee         |-> "e1",
                              company          |-> CompanyId,
                              amount           |-> 3000,
                              originalCurrency |-> CompanyCurrency,
                              convertedAmount  |-> 3000,
                              status           |-> "pending",
                              currentApprover  |-> Null,
                              approvalHistory  |-> <<>>,
                              approvalFlow     |-> approvalFlow])
    /\ nextId = 2
    /\ inflight = {}
    /\ res = [route |-> "checkApprovalCriteria", status |-> 0, message |-> NotCalled]

\* expense.checkApprovalCriteria(company): the returned boolean is kept in res.
CallCheckApprovalCriteria(id) ==
    /\ id \in DOMAIN expenses
    /\ res' = [res EXCEPT !.message =
                    IF checkApprovalCriteria(expenses[id].approvalFlow,
                                             company.settings.approvalRules)
                    THEN "true" ELSE "false"]
    /\ UNCHANGED <<users, company, expenses, nextId, inflight>>

RuleEngineNext == \E id \in ExpenseIds : CallCheckApprovalCriteria(id)

RuleEngineSpec == RuleEngineInit /\ [][RuleEngineNext]_vars

\* approvalPercentage >= percentage, without the division: approved / total
\* * 100 >= percentage, and 0 >= percentage for an empty step set.
PercentageReached(approvalFlow, percentage) ==
    IF Len(approvalFlow) = 0
    THEN 0 >= percentage
    ELSE Cardinality({i \in 1..Len(approvalFlow) : approvalFlow[i].status = "approved"})
            * 100 >= percentage * Len(approvalFlow)

\* Some approved step's approver has the role.
RoleApproved(approvalFlow, role) ==
    \E i \in 1..Len(approvalFlow) :
        approvalFlow[i].status = "approved" /\ users[approvalFlow[i].approver].role = role

(***************************************************************************)
(* C11.  checkApprovalCriteria returns true exactly when the percentage    *)
(* rule is enabled and reached, or the specific-approver rule is enabled   *)
(* and an approved step's approver has its role, or the hybrid rule is     *)
(* enabled and its percentage is reached or an approved step's approver    *)
(* has its role.  A disabled rule never contributes.                       *)
(***************************************************************************)
C11_RulesAreOrComposed ==
    \A id \in DOMAIN expenses :
        LET approvalFlow == expenses[id].approvalFlow
            rules == company.settings.approvalRules
        IN  res.route = "checkApprovalCriteria" /\ res.message # NotCalled
            => ( res.message = "true"
                 <=> \/ /\ rules.percentageRule.enabled
                        /\ PercentageReached(approvalFlow, rules.percentageRule.percentage)
                     \/ /\ rules.specificApproverRule.enabled
                        /\ RoleApproved(approvalFlow, rules.specificApproverRule.approverRole)
                     \/ /\ rules.hybridRule.enabled
                        /\ \/ PercentageReached(approvalFlow, rules.hybridRule.percentage)
                           \/ RoleApproved(approvalFlow, rules.hybridRule.specificRole) )

\* False was returned although two disabled rules had their conditions met,
\* on a flow with a rejected step.
C11_Witness ==
    \E id \in DOMAIN expenses :
        LET approvalFlow == expenses[id].approvalFlow
            rules == company.settings.approvalRules
        IN  /\ res.route = "checkApprovalCriteria" /\ res.message = "false"
            /\ ~rules.percentageRule.enabled
            /\ PercentageReached(approvalFlow, rules.percentageRule.percentage)
            /\ ~rules.specificApproverRule.enabled
            /\ RoleApproved(approvalFlow, rules.specificApproverRule.approverRole)
            /\ rules.hybridRule.enabled
            /\ \E i \in 1..Len(approvalFlow) : approvalFlow[i].status = "rejected"

(***************************************************************************)
(* Chain construction on its own: an expense is created in a company whose *)
(* admin has set the thresholds and the users' managers, flags and roles   *)
(***************************************************************************)
\* Directories the admin reaches through POST /api/users and PUT
\* /api/users/:id: e1's manager is a manager or the admin, the flags are set
\* or not, and m2 is a manager or a second admin.
Directories ==
    {[Directory EXCEPT !["e1"].manager = manager,
                       !["e1"].isManagerApprover = employeeFlag,
                       !["m1"].isManagerApprover = managerFlag,
                       !["m2"].role = role] :
        manager \in {"m1", "a1"}, employeeFlag \in BOOLEAN, managerFlag \in BOOLEAN,
        role \in {"manager", "admin"}}

\* Thresholds set through PUT /api/companies/me: the defaults, and values the
\* converted amounts 6000 and 12000 are equal to.
ThresholdSettings ==
    {DefaultThresholds, [financeApproval |-> 6000, directorApproval |-> 12000]}

BuildInit ==
    /\ users \in Directories
    /\ \E thresholds \in ThresholdSettings :
            company = [currency |-> CompanyCurrency,
                       settings |-> [approvalRules |-> DefaultApprovalRules,
                                     thresholds    |-> thresholds]]
    /\ expenses = <<>>
    /\ nextId = 1
    /\ inflight = {}
    /\ res = [route |-> "PUT /api/companies/me", status |-> 200,
              message |-> "Company updated successfully"]

BuildNext ==
    \E user \in UserIds, amount \in Amounts, originalCurrency \in Currencies :
        CreateExpense(user, amount, originalCurrency)

BuildSpec == BuildInit /\ [][BuildNext]_vars

CreateRoute == "POST /api/expenses"

\* A create request that is answered 201.
CreateSucceeds(user, amount, originalCurrency) ==
    /\ CreateExpense(user, amount, originalCurrency)
    /\ res'.status = 201

Approvers(chain) == {chain[i].approver : i \in 1..Len(chain)}

\* The chain with a step appended at the next order for a wanted approver
\* that was resolved and is not in the chain yet.
WithStep(chain, wanted, approver) ==
    IF wanted /\ approver # Null /\ approver \notin Approvers(chain)
    THEN Append(chain, [approver |-> approver, order |-> Len(chain) + 1,
                        status |-> "pending", comments |-> Null])
    ELSE chain

\* The steps for the manager, the finance approver and the admin-role user,
\* as the thresholds and the employee's manager ask for them.
ThresholdChain(user, convertedAmount, financeApprover, director) ==
    WithStep(
        WithStep(
            WithStep(<<>>,
                     users[user].manager # Null /\ users[user].isManagerApprover,
                     users[user].manager),
            convertedAmount >= company.settings.thresholds.financeApproval,
            financeApprover),
        convertedAmount >= company.settings.thresholds.directorApproval,
        director)

MaxInflight == 2

UpdateUserRoute == "PUT /api/users/:id"

\* Users whose role the requests change, and the roles they ask for.
RoleTargets == {"a1", "m2"}

BodyRoles == {"admin", "manager"}

\* auth, authorize('admin'): req.user is read, its role checked.
UpdateUserAuthorize(user, target, role) ==
    IF ~authorize(user, {"admin"})
    THEN Fail(UpdateUserRoute, 403, "Not authorized for this route")
    ELSE /\ Cardinality(inflight) < MaxInflight
         /\ inflight' = inflight \cup {[route |-> UpdateUserRoute, user |-> user,
                                        target |-> target, role |-> role]}
         /\ UNCHANGED <<users, company, expenses, nextId, res>>

\* The handler, run for a request the middleware let through: the target is
\* looked up in the requester's company, an admin may not change their own
\* role, then findByIdAndUpdate writes the role.
UpdateUserHandle(request) ==
    /\ request \in inflight
    /\ request.route = UpdateUserRoute
    /\ inflight' = inflight \ {request}
    /\ IF users[request.target].company # users[request.user].company
       THEN /\ Respond(UpdateUserRoute, 404, "User not found")
            /\ UNCHANGED <<users, company, expenses, nextId>>
       ELSE IF request.target = request.user /\ request.role # "admin"
       THEN /\ Respond(UpdateUserRoute, 400, "Cannot change your own role")
            /\ UNCHANGED <<users, company, expenses, nextId>>
       ELSE /\ users' = [users EXCEPT ![request.target].role = request.role]
            /\ Respond(UpdateUserRoute, 200, "User updated successfully")
            /\ UNCHANGED <<company, expenses, nextId>>

UsersNext ==
    \/ \E user \in UserIds, amount \in Amounts, originalCurrency \in Currencies :
            CreateExpense(user, amount, originalCurrency)
    \/ \E user \in UserIds, target \in RoleTargets, role \in BodyRoles :
            UpdateUserAuthorize(user, target, role)
    \/ \E request \in inflight :
            UpdateUserHandle(request)

UsersSpec == Init /\ [][UsersNext]_vars

(***************************************************************************)
(* C14.  When the manager, finance and director rules yield no step, the   *)
(* chain of the created expense is exactly one step, at order 1, for an    *)
(* admin of the company, and that admin is the currentApprover.            *)
(***************************************************************************)
C14_FallsBackToAdmin ==
    [][\A user \in UserIds, amount \in Amounts, originalCurrency \in Currencies :
        ( /\ CreateSucceeds(user, amount, originalCurrency)
          /\ \A financeApprover \in FindOne(FinanceManagers), director \in FindOne(Admins) :
                ThresholdChain(user, expenses'[nextId].convertedAmount,
                               financeApprover, director) = <<>> )
        => \E admin \in Admins :
            /\ expenses'[nextId].approvalFlow
                    = <<[approver |-> admin, order |-> 1,
                         status |-> "pending", comments |-> Null]>>
            /\ expenses'[nextId].currentApprover = admin]_vars

(***************************************************************************)
(* C15.  No creation stores an expense with an empty approvalFlow: when no *)
(* approver can be resolved, not even the fallback admin, the creation     *)
(* fails and nothing is stored.                                            *)
(***************************************************************************)
C15_NoChainlessExpense ==
    [][\A user \in UserIds, amount \in Amounts, originalCurrency \in Currencies :
        CreateExpense(user, amount, originalCurrency)
        => \A id \in DOMAIN expenses' : expenses'[id].approvalFlow # <<>>]_vars

(***************************************************************************)
(* C16.  Chain construction is deterministic: whichever of the qualifying  *)
(* users the lookups return, a build for the same employee, converted      *)
(* amount, thresholds and users gives the chain and the currentApprover    *)
(* that were stored.                                                       *)
(***************************************************************************)
C16_BuildIsDeterministic ==
    [][\A user \in UserIds, amount \in Amounts, originalCurrency \in Currencies :
        CreateSucceeds(user, amount, originalCurrency)
        => \A financeManager \in FindOne(FinanceManagers),
              director \in FindOne(Admins), admin \in FindOne(Admins) :
            LET again == setupApprovalFlow(user, expenses'[nextId].convertedAmount,
                                           company.settings.thresholds,
                                           financeManager, director, admin)
            IN  /\ again.approvalFlow = expenses'[nextId].approvalFlow
                /\ again.currentApprover = expenses'[nextId].currentApprover]_vars

(***************************************************************************)
(* POST /api/approvals/:id/approve and /reject, split at their awaits:     *)
(* findById reads the expense, the handler then works on that copy and     *)
(* save() writes, and other requests are served in between                 *)
(***************************************************************************)
RejectRoute == "POST /api/approvals/:id/reject"

\* document.save() of a copy that was read as `read` and changed to
\* `written`: only the modified paths are sent, the steps that were changed
\* ($set by position), the pushed history entries ($push), and status and
\* currentApprover where they were given a new value.
Save(stored, read, written) ==
    [stored EXCEPT
        !.approvalFlow =
            [i \in DOMAIN @ |-> IF written.approvalFlow[i] # read.approvalFlow[i]
                                THEN written.approvalFlow[i]
                                ELSE @[i]],
        !.approvalHistory =
            @ \o SubSeq(written.approvalHistory, Len(read.approvalHistory) + 1,
                        Len(written.approvalHistory)),
        !.status = IF written.status # read.status THEN written.status ELSE @,
        !.currentApprover = IF written.currentApprover # read.currentApprover
                            THEN written.currentApprover
                            ELSE @]

\* The arrays of the stored document were written since the copy was read
\* (its version key moved on).
VersionMoved(stored, read) ==
    Len(stored.approvalHistory) # Len(read.approvalHistory)

\* await expense.save(), then the 200.  The update carries no condition of
\* the handler's own; where the library puts the version key of the copy in
\* the update's filter, a document whose version moved on is not matched, the
\* save throws and the catch answers 500.
SaveAndRespond(request, written, message) ==
    \/ /\ expenses' = [expenses EXCEPT ![request.id] =
                            Save(@, request.expense, written)]
       /\ Respond(request.route, 200, message)
    \/ /\ VersionMoved(expenses[request.id], request.expense)
       /\ expenses' = expenses
       /\ Respond(request.route, 500, "Server error")

\* Middleware, validation and Expense.findById of an approve request.
ApproveRead(user, id, comments) ==
    IF ~authorize(user, {"manager", "admin"})
    THEN Fail(ApproveRoute, 403, "Not authorized for this route")
    ELSE IF id \notin DOMAIN expenses
    THEN Fail(ApproveRoute, 404, "Expense not found")
    ELSE /\ Cardinality(inflight) < MaxInflight
         /\ inflight' = inflight \cup
                {[route |-> ApproveRoute, user |-> user, id |-> id,
                  comments |-> comments, expense |-> expenses[id],
                  settings |-> company.settings.approvalRules]}
         /\ UNCHANGED <<users, company, expenses, nextId, res>>

\* The rest of the approve handler, on the copy that was read.
ApproveWrite(request) ==
    /\ request \in inflight
    /\ request.route = ApproveRoute
    /\ inflight' = inflight \ {request}
    /\ UNCHANGED <<users, company, nextId>>
    /\ IF request.expense.currentApprover = Null
       THEN Respond(ApproveRoute, 500, "Server error") /\ expenses' = expenses
       ELSE IF request.expense.currentApprover # request.user
       THEN /\ Respond(ApproveRoute, 403, "You are not authorized to approve this expense")
            /\ expenses' = expenses
       ELSE IF CurrentApproval(request.expense, request.user) = 0
       THEN /\ Respond(ApproveRoute, 400, "No pending approval found for current user")
            /\ expenses' = expenses
       ELSE SaveAndRespond(request,
                           ApproveResult(request.expense,
                                         CurrentApproval(request.expense, request.user),
                                         request.user, request.comments,
                                         request.settings),
                           "Expense approved successfully")

\* Middleware, validation and Expense.findById of a reject request.
RejectRead(user, id, comments) ==
    IF ~authorize(user, {"manager", "admin"})
    THEN Fail(RejectRoute, 403, "Not authorized for this route")
    ELSE IF comments \in {Null, ""}
    THEN Fail(RejectRoute, 400, "Rejection comments are required")
    ELSE IF id \notin DOMAIN expenses
    THEN Fail(RejectRoute, 404, "Expense not found")
    ELSE /\ Cardinality(inflight) < MaxInflight
         /\ inflight' = inflight \cup
                {[route |-> RejectRoute, user |-> user, id |-> id,
                  comments |-> comments, expense |-> expenses[id],
                  settings |-> company.settings.approvalRules]}
         /\ UNCHANGED <<users, company, expenses, nextId, res>>

\* The rest of the reject handler, on the copy that was read.
RejectWrite(request) ==
    /\ request \in inflight
    /\ request.route = RejectRoute
    /\ inflight' = inflight \ {request}
    /\ UNCHANGED <<users, company, nextId>>
    /\ IF request.expense.currentApprover = Null
       THEN Respond(RejectRoute, 500, "Server error") /\ expenses' = expenses
       ELSE IF request.expense.currentApprover # request.user
       THEN /\ Respond(RejectRoute, 403, "You are not authorized to reject this expense")
            /\ expenses' = expenses
       ELSE IF CurrentApproval(request.expense, request.user) = 0
       THEN /\ Respond(RejectRoute, 400, "No pending approval found for current user")
            /\ expenses' = expenses
       ELSE SaveAndRespond(request,
                           RejectResult(request.expense,
                                        CurrentApproval(request.expense, request.user),
                                        request.user, request.comments),
                           "Expense rejected successfully")

ConcurrentNext ==
    \/ \E user \in UserIds, amount \in Amounts, originalCurrency \in Currencies :
            CreateExpense(user, amount, originalCurrency)
    \/ \E user \in UserIds, id \in ExpenseIds, comments \in ApproveComments :
            ApproveRead(user, id, comments)
    \/ \E request \in inflight :
            ApproveWrite(request)
    \/ \E user \in UserIds, id \in ExpenseIds, comments \in RejectComments :
            RejectRead(user, id, comments)
    \/ \E request \in inflight :
            RejectWrite(request)

ConcurrentSpec == Init /\ [][ConcurrentNext]_vars

(***************************************************************************)
(* C20.  Of two Approve/Reject requests that both read a pending expense   *)
(* before either writes, at most one commits: the write of a request whose *)
(* expense was written since it was read fails and changes nothing.        *)
(***************************************************************************)
C20_StaleWriteDoesNotCommit ==
    [][\A request \in inflight :
        ( /\ ApproveWrite(request) \/ RejectWrite(request)
          /\ expenses[request.id] # request.expense )
        => /\ expenses' = expenses
           /\ res'.status # 200]_vars

(***************************************************************************)
(* PUT and DELETE /api/expenses/:id, split at their awaits: findById reads *)
(* the expense and the handler checks that copy, the write comes later,    *)
(* and approve and reject requests are served in between                   *)
(***************************************************************************)
\* Update and delete requests that have read and not written yet.
MaxEdits == 1

UpdateRoute == "PUT /api/expenses/:id"

DeleteRoute == "DELETE /api/expenses/:id"

\* Lines 267-293: middleware, Expense.findById and the checks on the copy.
UpdateRead(user, id, hasAmount, amount) ==
    IF ~authorize(user, {"employee", "admin"})
    THEN Fail(UpdateRoute, 403, "Not authorized for this route")
    ELSE IF id \notin DOMAIN expenses
    THEN Fail(UpdateRoute, 404, "Expense not found")
    ELSE IF users[user].role = "employee" /\ expenses[id].employee # user
    THEN Fail(UpdateRoute, 403, "Access denied")
    ELSE IF NotPending(expenses[id])
    THEN Fail(UpdateRoute, 400, "Cannot update approved or rejected expense")
    ELSE /\ Cardinality(inflight) < MaxEdits
         /\ inflight' = inflight \cup
                {[route |-> UpdateRoute, user |-> user, id |-> id,
                  hasAmount |-> hasAmount, amount |-> IF hasAmount THEN amount ELSE 0,
                  expense |-> expenses[id]]}
         /\ UNCHANGED <<users, company, expenses, nextId, res>>

\* Mutant of SaveAmount: the copy that was read is written back whole.
SaveAmountWholeDocument(stored, read, amount, convertedAmount) ==
    [read EXCEPT !.amount = amount, !.convertedAmount = convertedAmount]

\* expense.save() of an update: amount and convertedAmount are sent where the
\* handler gave them a new value, in an update that names the document by
\* its _id alone.
SaveAmount(stored, read, amount, convertedAmount) ==
    [stored EXCEPT
        !.amount = IF amount # read.amount THEN amount ELSE @,
        !.convertedAmount = IF convertedAmount # read.convertedAmount
                            THEN convertedAmount
                            ELSE @]

\* Lines 295-317: the rest of the update handler, on the copy that was read.
\* A save that finds its document gone writes nothing; the library throws
\* (500) or not (200).
UpdateWrite(request) ==
    /\ request \in inflight
    /\ request.route = UpdateRoute
    /\ inflight' = inflight \ {request}
    /\ UNCHANGED <<users, company, nextId>>
    /\ IF ~request.hasAmount
       THEN /\ Respond(UpdateRoute, 200, "Expense updated successfully")
            /\ expenses' = expenses
       ELSE \E conversion \in convertCurrency(request.amount,
                                              request.expense.originalCurrency,
                                              company.currency) :
            IF ~conversion.ok
            THEN Respond(UpdateRoute, 500, "Server error") /\ expenses' = expenses
            ELSE IF request.id \notin DOMAIN expenses
            THEN /\ expenses' = expenses
                 /\ \/ Respond(UpdateRoute, 500, "Server error")
                    \/ Respond(UpdateRoute, 200, "Expense updated successfully")
            ELSE /\ expenses' = [expenses EXCEPT ![request.id] =
                                    SaveAmount(@, request.expense, request.amount,
                                               conversion.value)]
                 /\ Respond(UpdateRoute, 200, "Expense updated successfully")

\* Lines 327-343: Expense.findById and the checks on the copy.
DeleteRead(user, id) ==
    IF id \notin DOMAIN expenses
    THEN Fail(DeleteRoute, 404, "Expense not found")
    ELSE IF users[user].role = "employee" /\ expenses[id].employee # user
    THEN Fail(DeleteRoute, 403, "Access denied")
    ELSE IF NotPending(expenses[id])
    THEN Fail(DeleteRoute, 400, "Cannot delete approved or rejected expense")
    ELSE /\ Cardinality(inflight) < MaxEdits
         /\ inflight' = inflight \cup {[route |-> DeleteRoute, user |-> user, id |-> id]}
         /\ UNCHANGED <<users, company, expenses, nextId, res>>

\* Lines 345-347: Expense.findByIdAndDelete(req.params.id), then the 200.
DeleteWrite(request) ==
    /\ request \in inflight
    /\ request.route = DeleteRoute
    /\ inflight' = inflight \ {request}
    /\ expenses' = [i \in DOMAIN expenses \ {request.id} |-> expenses[i]]
    /\ Respond(DeleteRoute, 200, "Expense deleted successfully")
    /\ UNCHANGED <<users, company, nextId>>

EditNext ==
    \/ \E user \in UserIds, amount \in Amounts, originalCurrency \in Currencies :
            CreateExpense(user, amount, originalCurrency)
    \/ \E user \in UserIds, id \in ExpenseIds, comments \in ApproveComments :
            ApproveExpense(user, id, comments)
    \/ \E user \in UserIds, id \in ExpenseIds, comments \in RejectComments :
            RejectExpense(user, id, comments)
    \/ \E user \in UserIds, id \in ExpenseIds, hasAmount \in BOOLEAN, amount \in Amounts :
            UpdateRead(user, id, hasAmount, amount)
    \/ \E request \in inflight :
            UpdateWrite(request)
    \/ \E user \in UserIds, id \in ExpenseIds :
            DeleteRead(user, id)
    \/ \E request \in inflight :
            DeleteWrite(request)

EditSpec == Init /\ [][EditNext]_vars

(***************************************************************************)
(* C21.  An Update or Delete that read the expense as pending does not     *)
(* commit once an Approve or Reject has made it terminal: an approved or   *)
(* rejected expense never has its amount or converted amount changed and   *)
(* is never deleted.                                                       *)
(***************************************************************************)
C21_TerminalIsNeverEdited ==
    [][\A id \in DOMAIN expenses :
        Terminal(expenses[id])
        => /\ id \in DOMAIN expenses'
           /\ expenses'[id].amount = expenses[id].amount
           /\ expenses'[id].convertedAmount = expenses[id].convertedAmount]_vars

\* convertedAmount is amount itself where the expense is in the company's
\* currency, else amount times the rate the rates table has for the pair.
SuccessfullyConverted(expense) ==
    IF expense.originalCurrency = company.currency
    THEN expense.convertedAmount = expense.amount
    ELSE /\ Rate(expense.originalCurrency, company.currency) # 0
         /\ expense.convertedAmount
                = expense.amount * Rate(expense.originalCurrency, company.currency)

(***************************************************************************)
(* C22.  When the currency conversion fails (the request is answered 500), *)
(* a Create stores no expense and an Update changes none; and every stored *)
(* expense's convertedAmount is the result of a successful conversion of   *)
(* its amount.                                                             *)
(***************************************************************************)
C22_ConversionFailureStoresNothing ==
    [][/\ \A user \in UserIds, amount \in Amounts, originalCurrency \in Currencies :
            CreateExpense(user, amount, originalCurrency) /\ res'.status = 500
            => expenses' = expenses
       /\ \A request \in inflight :
            UpdateWrite(request) /\ res'.status = 500
            => expenses' = expenses
       /\ \A id \in DOMAIN expenses' : SuccessfullyConverted(expenses'[id])]_vars

\* An update of a pending EUR expense was answered 500 and the expense holds
\* the amount and the converted amount it had.
C22_Witness ==
    \E id \in DOMAIN expenses :
        /\ res.route = UpdateRoute /\ res.status = 500
        /\ inflight = {}
        /\ expenses[id].originalCurrency = "EUR"
        /\ expenses[id].status = "pending"
        /\ expenses[id].convertedAmount = expenses[id].amount * RateEURUSD

(***************************************************************************)
(* POST /api/expenses as a multipart request: the body fields as the       *)
(* strings they arrive as, an uploaded receipt, and the OCR of the receipt *)
(***************************************************************************)
\* req.body.amount: empty, or a numeric string.
BodyAmounts == {"", "3000", "6000"}

\* The other fields: missing, or given.
BodyDescriptions == {Null, "lunch"}

BodyDates == {Null, "2024-01-15"}

Bodies ==
    [amount : BodyAmounts, originalCurrency : Currencies,
     description : BodyDescriptions, expenseDate : BodyDates]

\* req.file.mimetype of the types the upload filter lets through (null: no file).
Files == {Null, "image/png", "application/pdf"}

\* validator's isNumeric and isISO8601 on the strings above.
IsNumeric(s) == s \in {"3000", "6000"}

IsISO8601(s) == s = "2024-01-15"

\* parseFloat of a numeric string.
ParseFloat(s) == CASE s = "3000" -> 3000 [] s = "6000" -> 6000

\* new Date(s) of an ISO date, as yyyymmdd.
NewDate(s) == CASE s = "2024-01-15" -> 20240115

\* !x of a body field.
Falsy(x) == x \in {Null, ""}

\* mimetype.startsWith('image/')
IsImage(file) == file = "image/png"

\* processReceipt throws ('Failed to process receipt image') ...
OcrFailure ==
    [ok |-> FALSE, extractedAmount |-> 0, extractedDate |-> 0, extractedMerchant |-> Null]

\* ... or returns what extractExpenseData found in the text: the largest
\* number, the latest date and a merchant line, each null when none was
\* found (a null amount or date is written 0).  A text with a date has a
\* number, and a text with a number has a first line, the merchant.
OcrOutcomes ==
    {OcrFailure} \cup
        [ok : {TRUE}, extractedAmount : {0}, extractedDate : {0},
         extractedMerchant : {Null, "CAFE"}] \cup
        [ok : {TRUE}, extractedAmount : {4000}, extractedDate : {0, 20240110},
         extractedMerchant : {"CAFE"}]

\* ocrData of an expense that none was assigned to (the schema's default).
NoOcrData ==
    [processed |-> FALSE, extractedAmount |-> 0, extractedDate |-> 0,
     extractedMerchant |-> Null]

\* `Receipt from ${ocrData.extractedMerchant}`
ReceiptFrom(merchant) == "Receipt from " \o merchant

\* Lines 166-171: the date and the description.
FillRest(expense, body, ocr) ==
    [expense EXCEPT
        !.expenseDate = IF ocr.extractedDate # 0 /\ Falsy(body.expenseDate)
                        THEN ocr.extractedDate
                        ELSE @,
        !.description = IF ocr.extractedMerchant # Null /\ Falsy(body.description)
                        THEN ReceiptFrom(ocr.extractedMerchant)
                        ELSE @]

\* Mutant of AutoFill: what the OCR found replaces what was submitted.
AutoFillOverwrites(expense, body, ocr) ==
    LET withOcr == [expense EXCEPT !.ocrData =
                        [processed |-> TRUE, extractedAmount |-> ocr.extractedAmount,
                         extractedDate |-> ocr.extractedDate,
                         extractedMerchant |-> ocr.extractedMerchant]]
    IN  {[withOcr EXCEPT
            !.amount = IF ocr.extractedAmount # 0 THEN ocr.extractedAmount ELSE @,
            !.expenseDate = IF ocr.extractedDate # 0 THEN ocr.extractedDate ELSE @,
            !.description = IF ocr.extractedMerchant # Null
                            THEN ReceiptFrom(ocr.extractedMerchant)
                            ELSE @]}

\* Lines 159-171: the expenses the auto-fill can leave.  A conversion of the
\* extracted amount that throws is caught with the OCR errors: the amount
\* has been assigned, the rest is skipped.
AutoFill(expense, body, ocr) ==
    LET withOcr == [expense EXCEPT !.ocrData =
                        [processed |-> TRUE, extractedAmount |-> ocr.extractedAmount,
                         extractedDate |-> ocr.extractedDate,
                         extractedMerchant |-> ocr.extractedMerchant]]
    IN  IF ocr.extractedAmount # 0 /\ Falsy(body.amount)
        THEN {IF conversion.ok
              THEN FillRest([withOcr EXCEPT !.amount = ocr.extractedAmount,
                                            !.convertedAmount = conversion.value],
                            body, ocr)
              ELSE [withOcr EXCEPT !.amount = ocr.extractedAmount] :
                    conversion \in convertCurrency(ocr.extractedAmount,
                                                   body.originalCurrency,
                                                   company.currency)}
        ELSE {FillRest(withOcr, body, ocr)}

\* Mutant of ReceiptBranch: an OCR error is not caught.
ReceiptBranchRethrows(expense, body, file, ocr) ==
    IF file = Null
    THEN {[ok |-> TRUE, expense |-> expense]}
    ELSE IF ~IsImage(file)
    THEN {[ok |-> TRUE, expense |-> [expense EXCEPT !.receipt = file]]}
    ELSE IF ~ocr.ok
    THEN {[ok |-> FALSE, expense |-> expense]}
    ELSE {[ok |-> TRUE, expense |-> filled] :
            filled \in AutoFill([expense EXCEPT !.receipt = file], body, ocr)}

\* Lines 145-177: the receipt is attached; an image is sent to OCR, whose
\* error is caught (ok: nothing is thrown to the handler's own catch).
ReceiptBranch(expense, body, file, ocr) ==
    IF file = Null
    THEN {[ok |-> TRUE, expense |-> expense]}
    ELSE IF ~IsImage(file)
    THEN {[ok |-> TRUE, expense |-> [expense EXCEPT !.receipt = file]]}
    ELSE IF ~ocr.ok
    THEN {[ok |-> TRUE, expense |-> [expense EXCEPT !.receipt = file]]}
    ELSE {[ok |-> TRUE, expense |-> filled] :
            filled \in AutoFill([expense EXCEPT !.receipt = file], body, ocr)}

\* Lines 110-114: the validation chain.
ValidBody(body) ==
    /\ IsNumeric(body.amount)
    /\ ~Falsy(body.originalCurrency)
    /\ ~Falsy(body.description)
    /\ IsISO8601(body.expenseDate)

\* Requests whose upload and validation are done and whose handler has not
\* run yet.
MaxUploads == 1

\* Lines 109-120: authorize, the upload, the validation chain.
CreateReceive(user, body, file) ==
    IF ~authorize(user, {"employee", "admin"})
    THEN Fail(CreateRoute, 403, "Not authorized for this route")
    ELSE IF ~ValidBody(body)
    THEN Fail(CreateRoute, 400, "errors")
    ELSE /\ Cardinality(inflight) < MaxUploads
         /\ inflight' = inflight \cup
                {[route |-> CreateRoute, user |-> user, body |-> body, file |-> file]}
         /\ UNCHANGED <<users, company, expenses, nextId, res>>

\* The expense of line 133.  convertCurrency is given the body's string: it
\* returns it (cast to a number by the schema) or multiplies it by the rate.
NewExpense(user, body, convertedAmount) ==
    [employee         |-> user,
     company          |-> CompanyId,
     amount           |-> ParseFloat(body.amount),
     originalCurrency |-> body.originalCurrency,
     convertedAmount  |-> convertedAmount,
     description      |-> body.description,
     expenseDate      |-> NewDate(body.expenseDate),
     receipt          |-> Null,
     ocrData          |-> NoOcrData,
     status           |-> "pending",
     currentApprover  |-> Null,
     approvalHistory  |-> <<>>,
     approvalFlow     |-> <<>>]

\* Lines 122-197: the handler, for a request that passed the validation;
\* ocr is what processReceipt does when it is called.
CreateHandle(request, ocr) ==
    /\ request \in inflight
    /\ request.route = CreateRoute
    /\ inflight' = inflight \ {request}
    /\ UNCHANGED <<users, company>>
    /\ \E conversion \in convertCurrency(ParseFloat(request.body.amount),
                                         request.body.originalCurrency,
                                         company.currency) :
         IF ~conversion.ok
         THEN Respond(CreateRoute, 500, "Server error")
              /\ UNCHANGED <<expenses, nextId>>
         ELSE \E branch \in ReceiptBranch(
                    NewExpense(request.user, request.body, conversion.value),
                    request.body, request.file, ocr) :
              IF ~branch.ok
              THEN Respond(CreateRoute, 500, "Server error")
                   /\ UNCHANGED <<expenses, nextId>>
              ELSE /\ nextId <= MaxExpenses
                   /\ \E financeManager \in FindOne(FinanceManagers),
                         director \in FindOne(Admins),
                         admin \in FindOne(Admins) :
                         LET flow == setupApprovalFlow(request.user,
                                                       branch.expense.convertedAmount,
                                                       company.settings.thresholds,
                                                       financeManager, director, admin)
                         IN  expenses' = (nextId :> [branch.expense EXCEPT
                                            !.currentApprover = flow.currentApprover,
                                            !.approvalFlow = flow.approvalFlow])
                                         @@ expenses
                   /\ nextId' = nextId + 1
                   /\ Respond(CreateRoute, 201, "Expense created successfully")

ReceiptNext ==
    \/ \E user \in UserIds, body \in Bodies, file \in Files :
            CreateReceive(user, body, file)
    \/ \E request \in inflight, ocr \in OcrOutcomes :
            CreateHandle(request, ocr)

ReceiptSpec == Init /\ [][ReceiptNext]_vars

(***************************************************************************)
(* C23.  A create request whose receipt image the OCR fails on is not      *)
(* aborted by that failure: unless the currency conversion fails, it is    *)
(* answered 201 and the expense is stored with status pending, its         *)
(* approval chain built and no OCR-derived value (no ocrData; amount, date *)
(* and description as submitted).                                          *)
(***************************************************************************)
C23_OcrFailureDoesNotAbort ==
    [][\A request \in inflight :
        CreateHandle(request, OcrFailure) /\ IsImage(request.file)
        => \/ /\ res'.status = 500
              /\ expenses' = expenses
              /\ Failure \in convertCurrency(ParseFloat(request.body.amount),
                                             request.body.originalCurrency,
                                             company.currency)
           \/ /\ res'.status = 201
              /\ nextId \in DOMAIN expenses'
              /\ LET expense == expenses'[nextId] IN
                 /\ expense.status = "pending"
                 /\ expense.receipt = request.file
                 /\ expense.ocrData = NoOcrData
                 /\ expense.amount = ParseFloat(request.body.amount)
                 /\ expense.description = request.body.description
                 /\ expense.expenseDate = NewDate(request.body.expenseDate)
                 /\ \E financeManager \in FindOne(FinanceManagers),
                       director \in FindOne(Admins), admin \in FindOne(Admins) :
                        LET flow == setupApprovalFlow(request.user, expense.convertedAmount,
                                                      company.settings.thresholds,
                                                      financeManager, director, admin)
                        IN  /\ expense.approvalFlow = flow.approvalFlow
                            /\ expense.approvalFlow # <<>>
                            /\ expense.currentApprover = flow.currentApprover]_vars

\* An expense was created with a receipt image and without OCR data, and
\* waits for the first approver of its chain.
C23_Witness ==
    \E id \in DOMAIN expenses :
        /\ res.route = CreateRoute /\ res.status = 201
        /\ IsImage(expenses[id].receipt)
        /\ ~expenses[id].ocrData.processed
        /\ expenses[id].status = "pending"
        /\ Len(expenses[id].approvalFlow) > 0
        /\ expenses[id].currentApprover = expenses[id].approvalFlow[1].approver

(***************************************************************************)
(* C24.  Whatever the OCR of the receipt returns, a created expense keeps  *)
(* every field the submitter supplied: amount (and the converted amount    *)
(* that goes with it), date and description are the submitted ones, and an *)
(* OCR value is written only into a field the body left unset.             *)
(***************************************************************************)
C24_OcrNeverOverwrites ==
    [][\A request \in inflight, ocr \in OcrOutcomes :
        CreateHandle(request, ocr) /\ res'.status = 201
        => LET expense == expenses'[nextId]
               body == request.body
           IN  /\ ~Falsy(body.amount)
                  => /\ expense.amount = ParseFloat(body.amount)
                     /\ SuccessfullyConverted(expense)
               /\ ~Falsy(body.expenseDate)
                  => expense.expenseDate = NewDate(body.expenseDate)
               /\ ~Falsy(body.description)
                  => expense.description = body.description]_vars

\* An expense was created from a receipt on which the OCR found another
\* amount, another date and a merchant.
C24_Witness ==
    \E id \in DOMAIN expenses :
        /\ res.route = CreateRoute /\ res.status = 201
        /\ expenses[id].ocrData.processed
        /\ expenses[id].ocrData.extractedAmount \notin {0, expenses[id].amount}
        /\ expenses[id].ocrData.extractedDate \notin {0, expenses[id].expenseDate}
        /\ expenses[id].ocrData.extractedMerchant # Null
        /\ expenses[id].description = "lunch"

\* The log of a stored expense after a step is the log before it, with
\* nothing or one entry of an approve or reject action added at its end.
HistoryGrowsAtEnd(before, after) ==
    \/ after = before
    \/ /\ Len(after) = Len(before) + 1
       /\ SubSeq(after, 1, Len(before)) = before
       /\ after[Len(after)].action \in {"approved", "rejected"}

(***************************************************************************)
(* C25.  approvalHistory is append-only: a successful Approve or Reject    *)
(* adds exactly one entry, with the acting user and the action taken, at   *)
(* the end of the expense's log; a failed one adds nothing; and no step of *)
(* any operation removes, changes or reorders an entry of a stored         *)
(* expense's log, which grows only in a successful approve or reject.      *)
(***************************************************************************)
C25_HistoryIsAppendOnly ==
    [][/\ \A id \in DOMAIN expenses \cap DOMAIN expenses' :
            /\ HistoryGrowsAtEnd(expenses[id].approvalHistory,
                                 expenses'[id].approvalHistory)
            /\ expenses'[id].approvalHistory # expenses[id].approvalHistory
               => res'.route \in {ApproveRoute, RejectRoute} /\ res'.status = 200
       /\ \A user \in UserIds, id \in ExpenseIds, comments \in ApproveComments :
            res'.route = ApproveRoute /\ ApproveExpense(user, id, comments)
            => IF res'.status = 200
               THEN expenses'[id].approvalHistory
                        = Append(expenses[id].approvalHistory,
                                 [approver |-> user, action |-> "approved",
                                  comments |-> comments])
               ELSE expenses' = expenses
       /\ \A user \in UserIds, id \in ExpenseIds, comments \in RejectComments :
            res'.route = RejectRoute /\ RejectExpense(user, id, comments)
            => IF res'.status = 200
               THEN expenses'[id].approvalHistory
                        = Append(expenses[id].approvalHistory,
                                 [approver |-> user, action |-> "rejected",
                                  comments |-> comments])
               ELSE expenses' = expenses]_vars

\* A second approver has rejected an expense that the first had approved:
\* the log holds the two entries in the order of the actions.
C25_Witness ==
    \E id \in DOMAIN expenses :
        /\ res.route = RejectRoute /\ res.status = 200
        /\ Len(expenses[id].approvalHistory) = 2
        /\ expenses[id].approvalHistory[1].action = "approved"
        /\ expenses[id].approvalHistory[2].action = "rejected"
        /\ expenses[id].approvalHistory[1].approver
                # expenses[id].approvalHistory[2].approver

(***************************************************************************)
(* GET /api/approvals/pending, next to the routes that change what it      *)
(* returns                                                                 *)
(***************************************************************************)
PendingRoute == "GET /api/approvals/pending"

\* Lines 15-19: Expense.find({company, currentApprover, status: 'pending'}).
PendingApprovals(user) ==
    {id \in DOMAIN expenses : /\ expenses[id].company = users[user].company
                              /\ expenses[id].currentApprover = user
                              /\ expenses[id].status = "pending"}

\* res.json(expenses): the ids of the documents found, as text.
ListPendingApprovals(user) ==
    IF ~authorize(user, {"manager", "admin"})
    THEN Fail(PendingRoute, 403, "Not authorized for this route")
    ELSE /\ Respond(PendingRoute, 200, ToString(PendingApprovals(user)))
         /\ UNCHANGED <<users, company, expenses, nextId, inflight>>

InboxNext ==
    \/ \E user \in UserIds, amount \in Amounts, originalCurrency \in Currencies :
            CreateExpense(user, amount, originalCurrency)
    \/ \E user \in UserIds, id \in ExpenseIds, comments \in ApproveComments :
            ApproveExpense(user, id, comments)
    \/ \E user \in UserIds, id \in ExpenseIds, comments \in RejectComments :
            RejectExpense(user, id, comments)
    \/ \E user \in UserIds :
            UpdateCompany(user)
    \/ \E user \in UserIds :
            ListPendingApprovals(user)

InboxSpec == Init /\ [][InboxNext]_vars

\* The expenses of the user's company that are pending and whose
\* currentApprover is the user.
AwaitingUser(user) ==
    {id \in ExpenseIds : /\ id \in DOMAIN expenses
                         /\ expenses[id].company = users[user].company
                         /\ expenses[id].status = "pending"
                         /\ expenses[id].currentApprover = user}

(***************************************************************************)
(* C26.  ListPendingApprovals of a manager or admin returns exactly the    *)
(* pending expenses of their company whose currentApprover they are, and   *)
(* on every such expense an Approve by that user, and a Reject with        *)
(* comments, succeeds.                                                     *)
(***************************************************************************)
C26_ListedIsActionable ==
    [][\A user \in UserIds :
        /\ ListPendingApprovals(user) /\ res'.status = 200
           => res'.message = ToString(AwaitingUser(user))
        /\ \A id \in AwaitingUser(user) :
            authorize(user, {"manager", "admin"})
            => /\ \A comments \in ApproveComments :
                    ApproveExpense(user, id, comments) => res'.status = 200
               /\ \A comments \in Comments \ {""} :
                    RejectExpense(user, id, comments) => res'.status = 200]_vars

\* What the list returns is what awaits the user.
ListReturnsAwaiting ==
    [][\A user \in UserIds :
        ListPendingApprovals(user) /\ res'.status = 200
        => res'.message = ToString(AwaitingUser(user))]_vars

(***************************************************************************)
(* getApprovalPercentage and checkApprovalCriteria on any approval flow    *)
(* the schema admits, and on the flows got from it by one more approval    *)
(***************************************************************************)
\* The enum of approvalFlow.status.
FlowStatuses == {"pending", "approved", "rejected", "skipped"}

Flows ==
    UNION {{[i \in 1..n |-> [approver |-> f[i][1], order |-> i,
                            status |-> f[i][2], comments |-> Null]] :
                f \in [1..n -> RuleApprovers \X FlowStatuses]} : n \in 0..MaxSteps}

PercentageInit ==
    /\ users = Directory
    /\ \E approvalRules \in Policies :
            company = [currency |-> CompanyCurrency,
                       settings |-> [approvalRules |-> approvalRules,
                                     thresholds    |-> DefaultThresholds]]
    /\ \E approvalFlow \in Flows :
            expenses = (1 :> [employee         |-> "e1",
                              company          |-> CompanyId,
                              amount           |-> 3000,
                              originalCurrency |-> CompanyCurrency,
                              convertedAmount  |-> 3000,
                              status           |-> "pending",
                              currentApprover  |-> Null,
                              approvalHistory  |-> <<>>,
                              approvalFlow     |-> approvalFlow])
    /\ nextId = 2
    /\ inflight = {}
    /\ res = [route |-> "getApprovalPercentage", status |-> 0, message |-> NotCalled]

\* expense.getApprovalPercentage(): the returned number is kept in res.status.
CallGetApprovalPercentage(id) ==
    /\ id \in DOMAIN expenses
    /\ res' = [route |-> "getApprovalPercentage",
               status |-> getApprovalPercentage(expenses[id].approvalFlow),
               message |-> "returned"]
    /\ UNCHANGED <<users, company, expenses, nextId, inflight>>

\* approvals.js line 70 on any step that is not approved: one more step is
\* approved.  What was returned before no longer describes the flow.
TurnApproved(id, i) ==
    /\ id \in DOMAIN expenses
    /\ i \in 1..Len(expenses[id].approvalFlow)
    /\ expenses[id].approvalFlow[i].status # "approved"
    /\ expenses' = [expenses EXCEPT ![id].approvalFlow[i].status = "approved"]
    /\ res' = [route |-> "approvalFlow", status |-> 0, message |-> "turned approved"]
    /\ UNCHANGED <<users, company, nextId, inflight>>

\* One more approved step at the end of the flow.
AddApproved(id, approver) ==
    /\ id \in DOMAIN expenses
    /\ Len(expenses[id].approvalFlow) < MaxSteps
    /\ expenses' = [expenses EXCEPT ![id].approvalFlow =
                        Append(@, [approver |-> approver, order |-> Len(@) + 1,
                                   status |-> "approved", comments |-> Null])]
    /\ res' = [route |-> "approvalFlow", status |-> 0, message |-> "added approved"]
    /\ UNCHANGED <<users, company, nextId, inflight>>

PercentageNext ==
    \/ \E id \in ExpenseIds : CallGetApprovalPercentage(id)
    \/ \E id \in ExpenseIds, i \in 1..MaxSteps : TurnApproved(id, i)
    \/ \E id \in ExpenseIds, approver \in RuleApprovers : AddApproved(id, approver)

PercentageSpec == PercentageInit /\ [][PercentageNext]_vars

\* The steps of a flow with the given status.
WithStatus(approvalFlow, status) ==
    {i \in 1..Len(approvalFlow) : approvalFlow[i].status = status}

(***************************************************************************)
(* C27.  getApprovalPercentage returns approved / total * 100 (its integer *)
(* part p: p * total <= approved * 100 < (p + 1) * total), with approved   *)
(* the number of steps with status approved and total the number of all    *)
(* steps, rejected, pending and skipped ones included; it returns 0 for an *)
(* empty flow; and the result lies in [0, 100].                            *)
(***************************************************************************)
C27_PercentageOfAllSteps ==
    \A id \in DOMAIN expenses :
        LET approvalFlow == expenses[id].approvalFlow
            approved == Cardinality(WithStatus(approvalFlow, "approved"))
            total == Len(approvalFlow)
        IN  res.route = "getApprovalPercentage" /\ res.message # NotCalled
            => /\ res.status >= 0 /\ res.status <= 100
               /\ total = 0 => res.status = 0
               /\ total > 0 => /\ res.status * total <= approved * 100
                               /\ approved * 100 < (res.status + 1) * total

\* The percentage of a flow with an approved, a rejected and a skipped step
\* was returned: one third.
C27_Witness ==
    \E id \in DOMAIN expenses :
        /\ res.route = "getApprovalPercentage" /\ res.message # NotCalled
        /\ WithStatus(expenses[id].approvalFlow, "approved") # {}
        /\ WithStatus(expenses[id].approvalFlow, "rejected") # {}
        /\ WithStatus(expenses[id].approvalFlow, "skipped") # {}
        /\ res.status = 33

\* A step that approves one more step of expense `id`, or adds an approved one.
OneMoreApproved(id) ==
    \/ \E i \in 1..MaxSteps : TurnApproved(id, i)
    \/ \E approver \in RuleApprovers : AddApproved(id, approver)

(***************************************************************************)
(* C28.  The approval percentage is monotone in approvals: turning one     *)
(* more step of a flow into an approved step, or adding an approved step,  *)
(* never decreases getApprovalPercentage, and never turns a true result of *)
(* checkApprovalCriteria into false under the same policy.                 *)
(***************************************************************************)
C28_PercentageIsMonotone ==
    [][\A id \in ExpenseIds :
        OneMoreApproved(id)
        => /\ getApprovalPercentage(expenses'[id].approvalFlow)
                >= getApprovalPercentage(expenses[id].approvalFlow)
           /\ checkApprovalCriteria(expenses[id].approvalFlow,
                                    company.settings.approvalRules)
              => checkApprovalCriteria(expenses'[id].approvalFlow,
                                       company.settings.approvalRules)]_vars

\* A pending step was turned approved in a flow that keeps a rejected step,
\* and the percentage rule, which is on, is now met.
C28_Witness ==
    \E id \in DOMAIN expenses :
        /\ res.route = "approvalFlow" /\ res.message = "turned approved"
        /\ WithStatus(expenses[id].approvalFlow, "rejected") # {}
        /\ company.settings.approvalRules.percentageRule.enabled
        /\ ~company.settings.approvalRules.specificApproverRule.enabled
        /\ checkApprovalCriteria(expenses[id].approvalFlow,
                                 company.settings.approvalRules)

(***************************************************************************)
(* C29.  In the chain of every created expense the order values are        *)
(* positive integers without repetition, the first is 1, and they strictly *)
(* increase with the position in approvalFlow, whichever of the manager,   *)
(* finance and director steps are present.                                 *)
(***************************************************************************)
C29_OrdersIncreaseFromOne ==
    [][\A user \in UserIds, amount \in Amounts, originalCurrency \in Currencies :
        res'.route = CreateRoute /\ CreateSucceeds(user, amount, originalCurrency)
        => LET approvalFlow == expenses'[nextId].approvalFlow IN
           /\ \A i \in 1..Len(approvalFlow) :
                approvalFlow[i].order \in Nat /\ approvalFlow[i].order >= 1
           /\ Len(approvalFlow) > 0 => approvalFlow[1].order = 1
           /\ \A i, j \in 1..Len(approvalFlow) :
                i < j => approvalFlow[i].order < approvalFlow[j].order]_vars

\* A chain of three steps (manager, finance, director) was built: its orders
\* are 1, 2, 3.
C29_Witness ==
    \E id \in DOMAIN expenses :
        /\ res.route = CreateRoute /\ res.status = 201
        /\ Len(expenses[id].approvalFlow) = 3
        /\ expenses[id].approvalFlow[1].approver = users[expenses[id].employee].manager
        /\ users[expenses[id].approvalFlow[3].approver].role = "admin"
        /\ \A i \in 1..3 : expenses[id].approvalFlow[i].order = i

\* A chain without the manager's step (finance, director) was built: its
\* orders are 1, 2.
C29_WitnessNoManager ==
    \E id \in DOMAIN expenses :
        /\ res.route = CreateRoute /\ res.status = 201
        /\ Len(expenses[id].approvalFlow) = 2
        /\ users[expenses[id].approvalFlow[1].approver].role = "manager"
        /\ expenses[id].approvalFlow[1].approver # users[expenses[id].employee].manager
        /\ users[expenses[id].approvalFlow[2].approver].role = "admin"
        /\ \A i \in 1..2 : expenses[id].approvalFlow[i].order = i

(***************************************************************************)
(* POST /api/expenses split at the awaits of setupApprovalFlow: each       *)
(* lookup reads the users as they are when it runs, and role updates are   *)
(* served in between                                                       *)
(***************************************************************************)
\* Lines 109-130 and 355-375: middleware, conversion, and the manager's
\* step.  req.user and the company were read here.
CreateBegin(user, amount, originalCurrency) ==
    IF ~authorize(user, {"employee", "admin"})
    THEN Fail(CreateRoute, 403, "Not authorized for this route")
    ELSE \E conversion \in convertCurrency(amount, originalCurrency, company.currency) :
         IF ~conversion.ok
         THEN Fail(CreateRoute, 500, "Server error")
         ELSE /\ nextId + Cardinality({r \in inflight : r.route = CreateRoute})
                    <= MaxExpenses
              /\ Cardinality(inflight) < MaxInflight
              /\ inflight' = inflight \cup
                    {[route |-> CreateRoute, user |-> user, amount |-> amount,
                      originalCurrency |-> originalCurrency,
                      convertedAmount |-> conversion.value,
                      thresholds |-> company.settings.thresholds,
                      await |-> "financeManager", st |-> ManagerStep(user)]}
              /\ UNCHANGED <<users, company, expenses, nextId, res>>

\* Lines 377-392: the finance lookup and its step.
CreateFinance(request) ==
    /\ request \in inflight
    /\ request.route = CreateRoute
    /\ request.await = "financeManager"
    /\ \E financeManager \in FindOne(FinanceManagers) :
            inflight' = (inflight \ {request}) \cup
                {[request EXCEPT
                    !.await = "director",
                    !.st = ThresholdStep(@, request.convertedAmount,
                                         request.thresholds.financeApproval,
                                         financeManager)]}
    /\ UNCHANGED <<users, company, expenses, nextId, res>>

\* Lines 394-408: the director lookup and its step.
CreateDirector(request) ==
    /\ request \in inflight
    /\ request.route = CreateRoute
    /\ request.await = "director"
    /\ \E director \in FindOne(Admins) :
            inflight' = (inflight \ {request}) \cup
                {[request EXCEPT
                    !.await = "admin",
                    !.st = ThresholdStep(@, request.convertedAmount,
                                         request.thresholds.directorApproval,
                                         director)]}
    /\ UNCHANGED <<users, company, expenses, nextId, res>>

\* Lines 410-427 and 182-193: the fallback, expense.save() and the 201.
CreateSave(request) ==
    /\ request \in inflight
    /\ request.route = CreateRoute
    /\ request.await = "admin"
    /\ nextId <= MaxExpenses
    /\ inflight' = inflight \ {request}
    /\ \E admin \in FindOne(Admins) :
            LET final == FallbackStep(request.st, admin) IN
            expenses' = (nextId :> [employee         |-> request.user,
                                    company          |-> CompanyId,
                                    amount           |-> request.amount,
                                    originalCurrency |-> request.originalCurrency,
                                    convertedAmount  |-> request.convertedAmount,
                                    status           |-> "pending",
                                    currentApprover  |-> final.currentApprover,
                                    approvalHistory  |-> <<>>,
                                    approvalFlow     |-> final.approvalFlow])
                        @@ expenses
    /\ nextId' = nextId + 1
    /\ Respond(CreateRoute, 201, "Expense created successfully")
    /\ UNCHANGED <<users, company>>

LookupsNext ==
    \/ \E user \in UserIds, amount \in Amounts, originalCurrency \in Currencies :
            CreateBegin(user, amount, originalCurrency)
    \/ \E request \in inflight :
            CreateFinance(request)
    \/ \E request \in inflight :
            CreateDirector(request)
    \/ \E request \in inflight :
            CreateSave(request)
    \/ \E user \in UserIds, target \in RoleTargets, role \in BodyRoles :
            UpdateUserAuthorize(user, target, role)
    \/ \E request \in inflight :
            UpdateUserHandle(request)

LookupsSpec == Init /\ [][LookupsNext]_vars

(***************************************************************************)
(* C30.  No user appears in more than one step of the chain of a created   *)
(* expense: a finance or director candidate who is already in the chain,   *)
(* at any position, is not appended.                                       *)
(***************************************************************************)
C30_NoApproverTwice ==
    \A id \in DOMAIN expenses :
        \A i, j \in 1..Len(expenses[id].approvalFlow) :
            i # j => expenses[id].approvalFlow[i].approver
                        # expenses[id].approvalFlow[j].approver

(***************************************************************************)
(* The state of an expense between its creation and its completion         *)
(***************************************************************************)
\* The positions of the steps of least order in a chain.
LowestOrder(approvalFlow) ==
    {i \in 1..Len(approvalFlow) :
        \A j \in 1..Len(approvalFlow) : approvalFlow[i].order <= approvalFlow[j].order}

(***************************************************************************)
(* C31.  Immediately after creation the expense has status pending, every  *)
(* step has status pending, approvalHistory is empty, and currentApprover  *)
(* is the approver of the step with the lowest order.                      *)
(***************************************************************************)
C31_CreatedAwaitsFirstStep ==
    [][\A user \in UserIds, amount \in Amounts, originalCurrency \in Currencies :
        CreateSucceeds(user, amount, originalCurrency)
        => LET expense == expenses'[nextId]
           IN  /\ expense.status = "pending"
               /\ \A i \in 1..Len(expense.approvalFlow) :
                        expense.approvalFlow[i].status = "pending"
               /\ expense.approvalHistory = <<>>
               /\ \E i \in LowestOrder(expense.approvalFlow) :
                        expense.currentApprover = expense.approvalFlow[i].approver]_vars

\* The positions of the pending steps of least order in a chain.
LowestPending(approvalFlow) ==
    LET pending == {i \in 1..Len(approvalFlow) : approvalFlow[i].status = "pending"}
    IN  {i \in pending : \A j \in pending : approvalFlow[i].order <= approvalFlow[j].order}

\* No step has been acted on while a step of lower order is pending.
ActedIsPrefix(approvalFlow) ==
    \A i, j \in 1..Len(approvalFlow) :
        approvalFlow[i].status # "pending" /\ approvalFlow[j].order < approvalFlow[i].order
        => approvalFlow[j].status # "pending"

(***************************************************************************)
(* C32.  Steps are acted on strictly in order: the non-pending steps of an *)
(* expense form a prefix of the chain by order, and while the expense is   *)
(* pending the currentApprover's step is the pending step of lowest order. *)
(***************************************************************************)
C32_StepsActedInOrder ==
    \A id \in DOMAIN expenses :
        /\ ActedIsPrefix(expenses[id].approvalFlow)
        /\ expenses[id].status = "pending"
           => \E i \in LowestPending(expenses[id].approvalFlow) :
                expenses[id].approvalFlow[i].approver = expenses[id].currentApprover

\* The steps that have been acted on.
ActedSteps(approvalFlow) ==
    {i \in 1..Len(approvalFlow) : approvalFlow[i].status # "pending"}

(***************************************************************************)
(* C33.  The length of approvalHistory equals the number of steps whose    *)
(* status is not pending, each history entry's approver is the approver of *)
(* a step carrying the same action as its status, and no step ever has     *)
(* status skipped.                                                         *)
(***************************************************************************)
C33_HistoryMatchesSteps ==
    \A id \in DOMAIN expenses :
        LET approvalFlow == expenses[id].approvalFlow
            approvalHistory == expenses[id].approvalHistory
        IN  /\ Len(approvalHistory) = Cardinality(ActedSteps(approvalFlow))
            /\ \A h \in 1..Len(approvalHistory) :
                    \E i \in 1..Len(approvalFlow) :
                        /\ approvalFlow[i].approver = approvalHistory[h].approver
                        /\ approvalFlow[i].status = approvalHistory[h].action
            /\ \A i \in 1..Len(approvalFlow) : approvalFlow[i].status # "skipped"

\* The steps of a chain that have the given status.
StepsWith(approvalFlow, status) ==
    {i \in 1..Len(approvalFlow) : approvalFlow[i].status = status}

(***************************************************************************)
(* C34.  Expense status and step statuses stay consistent: the status is   *)
(* rejected exactly when exactly one step is rejected (and its rejection   *)
(* is the last history entry); status approved implies no step is rejected *)
(* and at least one step is approved; status pending implies no step is    *)
(* rejected.                                                               *)
(***************************************************************************)
C34_StatusMatchesSteps ==
    \A id \in DOMAIN expenses :
        LET expense == expenses[id]
            rejected == StepsWith(expense.approvalFlow, "rejected")
            history == expense.approvalHistory
        IN  /\ expense.status = "rejected" <=> Cardinality(rejected) = 1
            /\ expense.status = "rejected"
               => /\ history # <<>>
                  /\ history[Len(history)].action = "rejected"
                  /\ \A i \in rejected :
                        expense.approvalFlow[i].approver = history[Len(history)].approver
            /\ expense.status = "approved"
               => /\ rejected = {}
                  /\ StepsWith(expense.approvalFlow, "approved") # {}
            /\ expense.status = "pending" => rejected = {}

(***************************************************************************)
(* C35.  A successful Update changes only the amount and the converted     *)
(* amount (of the fields of the model): it leaves status, approvalFlow,    *)
(* currentApprover and approvalHistory unchanged, and the chain is not     *)
(* rebuilt even when the new converted amount crosses an approval          *)
(* threshold.                                                              *)
(***************************************************************************)
C35_UpdateKeepsTheWorkflow ==
    [][\A request \in inflight :
        ( /\ res'.route = UpdateRoute /\ res'.status = 200
          /\ UpdateWrite(request) )
        => /\ DOMAIN expenses' = DOMAIN expenses
           /\ \A id \in DOMAIN expenses :
                /\ expenses'[id].status = expenses[id].status
                /\ expenses'[id].approvalFlow = expenses[id].approvalFlow
                /\ expenses'[id].currentApprover = expenses[id].currentApprover
                /\ expenses'[id].approvalHistory = expenses[id].approvalHistory
                /\ expenses'[id].employee = expenses[id].employee
                /\ expenses'[id].originalCurrency = expenses[id].originalCurrency
                /\ id # request.id => expenses'[id] = expenses[id]]_vars

\* An update raised a pending expense from below the finance threshold to at
\* least that threshold, and its chain is the manager's single step still.
C35_Witness ==
    \E id \in DOMAIN expenses :
        /\ res.route = UpdateRoute /\ res.status = 200
        /\ inflight = {}
        /\ expenses[id].status = "pending"
        /\ expenses[id].amount = 6000
        /\ expenses[id].convertedAmount >= company.settings.thresholds.financeApproval
        /\ Len(expenses[id].approvalFlow) = 1
        /\ expenses[id].approvalFlow[1].approver = users[expenses[id].employee].manager
        /\ expenses[id].approvalFlow[1].status = "pending"

\* The chain has a step for each threshold the converted amount reaches
\* (one of the company's finance approvers, one of its admins), as far as
\* the company has such a user.
CoversThresholds(expense) ==
    /\ ( /\ expense.convertedAmount >= company.settings.thresholds.financeApproval
         /\ FinanceManagers # {} )
       => Approvers(expense.approvalFlow) \cap FinanceManagers # {}
    /\ ( /\ expense.convertedAmount >= company.settings.thresholds.directorApproval
         /\ Admins # {} )
       => Approvers(expense.approvalFlow) \cap Admins # {}

(***************************************************************************)
(* C36.  What was approved is what is paid: once any step of an expense    *)
(* has status approved, its amount and convertedAmount never change again, *)
(* and a chain that lacks the finance or director step never belongs to an *)
(* expense whose convertedAmount is at or above that threshold.            *)
(***************************************************************************)
C36_ApprovedAmountIsFinal ==
    [][/\ \A id \in DOMAIN expenses :
            StepsWith(expenses[id].approvalFlow, "approved") # {}
            => /\ id \in DOMAIN expenses'
               /\ expenses'[id].amount = expenses[id].amount
               /\ expenses'[id].convertedAmount = expenses[id].convertedAmount
       /\ \A id \in DOMAIN expenses' : CoversThresholds(expenses'[id])]_vars

(***************************************************************************)
(* Two companies on one server: the users of the second company send       *)
(* requests that name, by id, expenses of the first                        *)
(***************************************************************************)
TenantInit ==
    /\ users = [u \in UserIds \cup OtherUserIds |->
                    IF u \in UserIds THEN Directory[u] ELSE OtherDirectory[u]]
    /\ company = [currency |-> CompanyCurrency,
                  settings |-> [approvalRules |-> DefaultApprovalRules,
                                thresholds    |-> DefaultThresholds]]
    /\ expenses = <<>>
    /\ nextId = 1
    /\ inflight = {}
    /\ res = [route |-> "POST /api/auth/register", status |-> 201,
              message |-> "Company and admin user created successfully"]

TenantNext ==
    \/ \E user \in UserIds, amount \in Amounts, originalCurrency \in Currencies :
            CreateExpense(user, amount, originalCurrency)
    \/ \E user \in UserIds \cup OtherUserIds, id \in ExpenseIds,
          comments \in ApproveComments :
            ApproveExpense(user, id, comments)
    \/ \E user \in UserIds \cup OtherUserIds, id \in ExpenseIds,
          comments \in RejectComments :
            RejectExpense(user, id, comments)
    \/ \E user \in UserIds \cup OtherUserIds, id \in ExpenseIds,
          hasAmount \in BOOLEAN, amount \in Amounts :
            UpdateExpense(user, id, hasAmount, amount)
    \/ \E user \in UserIds \cup OtherUserIds, id \in ExpenseIds :
            DeleteExpense(user, id)

TenantSpec == TenantInit /\ [][TenantNext]_vars

\* A request of the user that names the expense.
RequestOn(user, id) ==
    \/ \E hasAmount \in BOOLEAN, amount \in Amounts :
            UpdateExpense(user, id, hasAmount, amount)
    \/ DeleteExpense(user, id)
    \/ \E comments \in ApproveComments : ApproveExpense(user, id, comments)
    \/ \E comments \in RejectComments : RejectExpense(user, id, comments)

(***************************************************************************)
(* C37.  Tenant isolation: no Update, Delete, Approve or Reject request    *)
(* issued by a user of one company modifies or removes an expense that     *)
(* belongs to another company, whatever the user's role.                   *)
(***************************************************************************)
C37_TenantIsolation ==
    [][\A id \in DOMAIN expenses :
        \A user \in {u \in DOMAIN users : users[u].company # expenses[id].company} :
            RequestOn(user, id)
            => /\ id \in DOMAIN expenses'
               /\ expenses'[id] = expenses[id]]_vars

(***************************************************************************)
(* C38.  The submitter of an expense is never an approver in that          *)
(* expense's own chain: no step of the chain, and in particular not        *)
(* currentApprover, names the submitting user.                             *)
(***************************************************************************)
C38_SubmitterIsNoApprover ==
    \A id \in DOMAIN expenses :
        /\ expenses[id].employee \notin Approvers(expenses[id].approvalFlow)
        /\ expenses[id].currentApprover # expenses[id].employee

(***************************************************************************)
(* DELETE /api/users/:id: the admin deactivates users, and the users that  *)
(* can still log in create expenses                                        *)
(***************************************************************************)
DeleteUserRoute == "DELETE /api/users/:id"

\* routes/users.js lines 166-193: a soft delete, isActive is set to false.
DeleteUser(user, target) ==
    IF ~authorize(user, {"admin"})
    THEN Fail(DeleteUserRoute, 403, "Not authorized for this route")
    ELSE IF target = user
    THEN Fail(DeleteUserRoute, 400, "Cannot delete your own account")
    ELSE IF users[target].company # users[user].company
    THEN Fail(DeleteUserRoute, 404, "User not found")
    ELSE /\ users' = [users EXCEPT ![target].isActive = FALSE]
         /\ Respond(DeleteUserRoute, 200, "User deactivated successfully")
         /\ UNCHANGED <<company, expenses, nextId, inflight>>

\* routes/auth.js lines 97-101: only an active user logs in.
ActiveUsers == {u \in UserIds : users[u].isActive}

DeactivationNext ==
    \/ \E user \in ActiveUsers, target \in UserIds :
            DeleteUser(user, target)
    \/ \E user \in ActiveUsers, amount \in Amounts, originalCurrency \in Currencies :
            CreateExpense(user, amount, originalCurrency)

DeactivationSpec == Init /\ [][DeactivationNext]_vars

(***************************************************************************)
(* C39.  Every approver placed in a chain at creation is an active user of *)
(* the company at that moment: a user deactivated through user deletion is *)
(* never selected as manager, finance, director or fallback approver.      *)
(***************************************************************************)
C39_ApproversAreActive ==
    [][\A user \in UserIds, amount \in Amounts, originalCurrency \in Currencies :
        CreateSucceeds(user, amount, originalCurrency)
        => \A approver \in Approvers(expenses'[nextId].approvalFlow) :
                /\ users[approver].isActive
                /\ users[approver].company = expenses'[nextId].company]_vars

(***************************************************************************)
(* utils/currency.js: the rates cache on its own.  getCurrencyRates is     *)
(* called for any mix of base currencies while the clock advances.  The    *)
(* module's currencyRates and lastUpdated, the clock and what the last     *)
(* call returned are the fields of res; the GET requests awaiting the      *)
(* rates API are in inflight                                               *)
(***************************************************************************)
\* Line 6, in hours (the source counts milliseconds: 24 * 60 * 60 * 1000).
CACHE_DURATION == 24

\* The clock advances in steps of TickHours up to MaxHours.
TickHours == 12

MaxHours == 48

\* GET requests to the rates API that have not been answered yet.
MaxFetches == 2

\* A null lastUpdated, an undefined currencyRates[base].
NoTime == -1

RatesRoute == "getCurrencyRates"

\* Line 4: per base currency, the cached table; a table is told from another
\* by the hour at which it was fetched.
currencyRates == res.currencyRates

\* Line 5: one timestamp for the module.
lastUpdated == res.lastUpdated

\* Date.now(), in hours since the server started.
now == res.now

CacheInit ==
    /\ users = Directory
    /\ company = [currency |-> CompanyCurrency,
                  settings |-> [approvalRules |-> DefaultApprovalRules,
                                thresholds    |-> DefaultThresholds]]
    /\ expenses = <<>>
    /\ nextId = 1
    /\ inflight = {}
    /\ res = [route |-> RatesRoute, base |-> Null, returned |-> NoTime,
              message |-> NotCalled,
              currencyRates |-> [base \in Currencies |-> NoTime],
              lastUpdated |-> NoTime, now |-> 0]

\* Lines 11-12: the condition under which the cached table is returned.
CachedAndRecent(baseCurrency) ==
    /\ currencyRates[baseCurrency] # NoTime
    /\ lastUpdated # NoTime
    /\ (now - lastUpdated) < CACHE_DURATION

\* Lines 8-16: the cached table is returned, or the GET request is sent.
getCurrencyRates(baseCurrency) ==
    IF CachedAndRecent(baseCurrency)
    THEN /\ res' = [res EXCEPT !.base = baseCurrency,
                               !.returned = currencyRates[baseCurrency],
                               !.message = "cached"]
         /\ UNCHANGED <<users, company, expenses, nextId, inflight>>
    ELSE /\ Cardinality(inflight) < MaxFetches
         /\ inflight' = inflight \cup {[route |-> RatesRoute, base |-> baseCurrency]}
         /\ UNCHANGED <<users, company, expenses, nextId, res>>

\* Lines 16-20: the response is stored under its base, lastUpdated is set,
\* and the table is returned.
RatesFetched(request) ==
    /\ request \in inflight
    /\ request.route = RatesRoute
    /\ inflight' = inflight \ {request}
    /\ res' = [res EXCEPT !.currencyRates[request.base] = now,
                          !.lastUpdated = now,
                          !.base = request.base,
                          !.returned = now,
                          !.message = "fetched"]
    /\ UNCHANGED <<users, company, expenses, nextId>>

\* Lines 21-24: the GET request fails and the call throws.
RatesFailed(request) ==
    /\ request \in inflight
    /\ request.route = RatesRoute
    /\ inflight' = inflight \ {request}
    /\ res' = [res EXCEPT !.base = request.base,
                          !.returned = NoTime,
                          !.message = "Failed to fetch currency rates"]
    /\ UNCHANGED <<users, company, expenses, nextId>>

Tick ==
    /\ now + TickHours <= MaxHours
    /\ res' = [res EXCEPT !.now = @ + TickHours]
    /\ UNCHANGED <<users, company, expenses, nextId, inflight>>

CacheNext ==
    \/ \E baseCurrency \in Currencies :
            getCurrencyRates(baseCurrency)
    \/ \E request \in inflight :
            RatesFetched(request)
    \/ \E request \in inflight :
            RatesFailed(request)
    \/ Tick

CacheSpec == CacheInit /\ [][CacheNext]_vars

(***************************************************************************)
(* C40.  The rates cache never serves stale data: a call returns the       *)
(* cached rates of a base only if the rates of that same base were fetched *)
(* less than 24 hours earlier; otherwise it refetches.                     *)
(***************************************************************************)
C40_CacheIsNeverStale ==
    [][\A baseCurrency \in Currencies :
        getCurrencyRates(baseCurrency)
        => IF /\ currencyRates[baseCurrency] # NoTime
              /\ (now - currencyRates[baseCurrency]) < CACHE_DURATION
           THEN TRUE
           ELSE /\ res' = res
                /\ \E request \in inflight' : request.base = baseCurrency]_vars

====
